---- MODULE Spec2Model ----
(***************************************************************************)
(* A model of the zello-client session: ZelloClient (src/src/client.rs),   *)
(* its transport Protocol (src/src/protocol.rs) and the inbound decoding   *)
(* of src/src/message.rs.                                                  *)
(*                                                                         *)
(* The session-owning task is one process; `pc` is its position.  The      *)
(* server and the network are the environment: they append frames to       *)
(* `inbox`, the frames the WebSocket stream will yield, in order.          *)
(* An Option<T> is the set of its values: None is {} and Some(x) is {x}.   *)
(***************************************************************************)
EXTENDS Integers, Sequences, FiniteSets, TLC

(***************************************************************************)
(* Bounds of the model.                                                    *)
(***************************************************************************)
\* requests are issued while Protocol.sequence <= MaxSeq
MaxSeq == 3
\* frames written to the connection (the length of `sent`)
MaxSent == 4
\* frames delivered by the transport and not yet read
MaxInbox == 2
\* how far from 0, 2^31 and 2^32 the values of a sequence counter are taken
MaxWrap == 12
\* how many audio packets the peer sends while the handlers are explored
MaxPackets == 3
\* how many audio packets the peer sends beyond the capacity of the sample queue
MaxOverflow == 1
\* how many frames the connection holds when Protocol::receive is explored on its own
MaxFrames == 3
\* how many requests are written when Protocol::send is explored on its own
MaxEncoded == 2
\* the longest byte buffer that CodecHeader::from_bytes is applied to
MaxBytes == 5
\* the audio packets of the longest burst sent before the playback callback runs
MaxBurst == 9

(***************************************************************************)
(* Program constants.                                                      *)
(***************************************************************************)
\* Protocol::connect: Self { ws, sequence: 1 }
InitialSequence == 1
\* u32::MAX as the model holds it: a u32 x is held as x below 2^31 and as x - 2^32
\* from there on (the model checker's integers are 32 bits wide and signed)
U32Max == -1
\* the largest u32 held as itself, 2^31 - 1
I32Max == 2147483647
\* authenticate: timeout(Duration::from_secs(10), ...)
LogonTimeout == 10
\* start_audio_stream: timeout(Duration::from_secs(5), ...)
StartStreamTimeout == 5

(***************************************************************************)
(* Option<T>                                                               *)
(***************************************************************************)
None == {}
Some(x) == {x}
is_some(o) == o # {}
unwrap(o) == CHOOSE x \in o : TRUE

\* Option<String>::unwrap_or_default
unwrap_or_default(o) == IF is_some(o) THEN unwrap(o) ELSE ""

\* Option<String>::unwrap_or_else(|| d)
unwrap_or_else(o, d) == IF is_some(o) THEN unwrap(o) ELSE d

(***************************************************************************)
(* Results.  A Result<T> is a record: status "Ok" with a value, or "Err"   *)
(* with the ZelloError variant and its message.                            *)
(***************************************************************************)
Ok(op, v) == [op |-> op, status |-> "Ok", err |-> "", msg |-> "", val |-> v]
Err(op, kind, m) == [op |-> op, status |-> "Err", err |-> kind, msg |-> m, val |-> 0]
NoResult == [op |-> "", status |-> "", err |-> "", msg |-> "", val |-> 0]

(***************************************************************************)
(* ZelloConfig::validate                                                   *)
(***************************************************************************)
validate(cfg) ==
    IF cfg.channel = ""
    THEN Err("new", "ConfigError", "Channel cannot be empty")
    ELSE IF ~(is_some(cfg.auth_token) /\ is_some(cfg.username) /\ is_some(cfg.password))
    THEN Err("new", "ConfigError", "Must provide auth_token and username/password")
    ELSE IF unwrap(cfg.username) = "" \/ unwrap(cfg.password) = "" \/ unwrap(cfg.auth_token) = ""
    THEN Err("new", "ConfigError", "Username, password, and auth token cannot be empty")
    ELSE Ok("new", 0)

(***************************************************************************)
(* Protocol::next_seq: returns the counter and advances it, wrapping.      *)
(***************************************************************************)
next_seq_value(sequence_) == sequence_
\* u32::wrapping_add(1)
wrapping_add_1(x) == IF x = I32Max THEN (-I32Max) - 1 ELSE x + 1
\* next_seq_after with the counter left as it is
next_seq_after_stuck(sequence_) == sequence_
\* next_seq_after with u32::saturating_add(1)
next_seq_after_saturating(sequence_) ==
    IF sequence_ = U32Max THEN U32Max ELSE wrapping_add_1(sequence_)
\* self.sequence after next_seq
next_seq_after(sequence_) == wrapping_add_1(sequence_)

(***************************************************************************)
(* Outgoing frames.  A text frame is the serialized Message (its command   *)
(* tag, its seq, and for stop_stream the stream id); a binary frame is     *)
(* the bytes handed to send_audio_data.                                    *)
(***************************************************************************)
TextOut(command, seq_, stream_id) ==
    [kind |-> "text", command |-> command, seq |-> seq_, stream_id |-> stream_id, data |-> <<>>]
\* BinaryOut with the header of the inbound binary frames put before the data
BinaryOut_with_header(data) ==
    [kind |-> "binary", command |-> "", seq |-> 0, stream_id |-> 0,
     data |-> <<1, 0, 0, 0, 2, 0, 0, 0, 1>> \o data]

\* send_audio_data: WsMessage::Binary(data.into())
BinaryOut(data) ==
    [kind |-> "binary", command |-> "", seq |-> 0, stream_id |-> 0, data |-> data]

\* Message::logon_password / Message::logon_token
logon(seq_) == TextOut("logon", seq_, 0)
\* Message::send_text
send_text(seq_) == TextOut("send_text_message", seq_, 0)
\* Message::start_stream
start_stream(seq_) == TextOut("start_stream", seq_, 0)
\* Message::stop_stream
stop_stream(seq_, stream_id) == TextOut("stop_stream", seq_, stream_id)

(***************************************************************************)
(* Message and its serialization (message.rs 11-54, derive(Serialize) with *)
(* serde(tag = "command")).  The JSON text is the sequence of its members  *)
(* in the order they are written; a value is null, a string, a number or   *)
(* an array of strings.                                                    *)
(***************************************************************************)
JsonValue(type, string, number, array) ==
    [type |-> type, string |-> string, number |-> number, array |-> array]
JsonNull == JsonValue("null", "", 0, <<>>)
JsonString(string) == JsonValue("string", string, 0, <<>>)
JsonNumber(number) == JsonValue("number", "", number, <<>>)
JsonArray(array) == JsonValue("array", "", 0, array)
Member(name, value) == [name |-> name, value |-> value]

\* the variants of enum Message
Message_Logon(seq_, username, password, auth_token, channels) ==
    [variant |-> "Logon", seq |-> seq_, username |-> username, password |-> password,
     auth_token |-> auth_token, channels |-> channels]
Message_SendTextMessage(seq_, channel, for_user, text) ==
    [variant |-> "SendTextMessage", seq |-> seq_, channel |-> channel,
     for_user |-> for_user, text |-> text]
Message_StartStream(seq_, channel, for_user, codec, codec_header, packet_duration) ==
    [variant |-> "StartStream", seq |-> seq_, channel |-> channel, for_user |-> for_user,
     codec |-> codec, codec_header |-> codec_header, packet_duration |-> packet_duration]
Message_StopStream(seq_, stream_id) ==
    [variant |-> "StopStream", seq |-> seq_, stream_id |-> stream_id]

\* the constructors of impl Message
Message_logon_password(seq_, username, password, auth_token, channel) ==
    Message_Logon(seq_, Some(username), Some(password), Some(auth_token), Some(<<channel>>))
Message_logon_token(seq_, auth_token, channel) ==
    Message_Logon(seq_, None, None, Some(auth_token), Some(<<channel>>))
Message_send_text(seq_, channel, text) ==
    Message_SendTextMessage(seq_, channel, None, text)
Message_send_text_for_callsign(seq_, channel, text, for_user) ==
    Message_SendTextMessage(seq_, channel, Some(for_user), text)
Message_start_stream(seq_, channel, codec, packet_duration) ==
    Message_StartStream(seq_, channel, None, codec, None, packet_duration)
Message_stop_stream(seq_, stream_id) == Message_StopStream(seq_, stream_id)

\* an Option<String> field with serde(skip_serializing_if = "Option::is_none")
skip_serializing_if_none(name, o) ==
    IF o = None THEN <<>> ELSE <<Member(name, JsonString(unwrap(o)))>>
\* the same for Option<Vec<String>>
skip_serializing_if_none_vec(name, o) ==
    IF o = None THEN <<>> ELSE <<Member(name, JsonArray(unwrap(o)))>>

\* an Option<String> field with no skip attribute: None is written as null
serialize_option(name, o) ==
    <<Member(name, IF o = None THEN JsonNull ELSE JsonString(unwrap(o)))>>

\* serde_json::to_string(&message): the tag, then the fields as declared
to_string(message) ==
    CASE message.variant = "Logon" ->
            <<Member("command", JsonString("logon")), Member("seq", JsonNumber(message.seq))>>
            \o skip_serializing_if_none("username", message.username)
            \o skip_serializing_if_none("password", message.password)
            \o skip_serializing_if_none("auth_token", message.auth_token)
            \o skip_serializing_if_none_vec("channels", message.channels)
      [] message.variant = "SendTextMessage" ->
            <<Member("command", JsonString("send_text_message")),
              Member("seq", JsonNumber(message.seq)),
              Member("channel", JsonString(message.channel))>>
            \o serialize_option("for", message.for_user)
            \o <<Member("text", JsonString(message.text))>>
      [] message.variant = "StartStream" ->
            <<Member("command", JsonString("start_stream")),
              Member("seq", JsonNumber(message.seq)),
              Member("channel", JsonString(message.channel))>>
            \o serialize_option("for", message.for_user)
            \o <<Member("codec", JsonString(message.codec))>>
            \o serialize_option("codec_header", message.codec_header)
            \o <<Member("packet_duration", JsonNumber(message.packet_duration))>>
      [] message.variant = "StopStream" ->
            <<Member("command", JsonString("stop_stream")),
              Member("seq", JsonNumber(message.seq)),
              Member("stream_id", JsonNumber(message.stream_id))>>

\* the text frame that Protocol::send writes: WsMessage::Text(json)
TextJson(json) == [kind |-> "text", json |-> json]

(***************************************************************************)
(* Inbound text.  A JSON object is the record of the fields the decoder    *)
(* looks at, each present or absent; `rest` says whether the other         *)
(* required fields of the event named by `command` are all present, and    *)
(* `event` holds those of them that a handler reads.                       *)
(***************************************************************************)
\* the fields of an Event that the handlers read
EventFields(stream_id, channel, codec, from, codec_header, packet_id, data) ==
    [stream_id |-> stream_id, channel |-> channel, codec |-> codec, from |-> from,
     codec_header |-> codec_header, packet_id |-> packet_id, data |-> data]
NoEvent == EventFields(0, "", "", "", None, 0, <<>>)

Json(command, seq_, success, refresh_token_, error, rest) ==
    [command |-> command, seq |-> seq_, success |-> success,
     refresh_token |-> refresh_token_, error |-> error, rest |-> rest, event |-> NoEvent]
\* the JSON object of an event with all its required fields
EventJson(command, event) ==
    [Json(command, None, None, None, None, TRUE) EXCEPT !.event = event]
NoJson == Json("", None, None, None, None, FALSE)

EventCommands ==
    {"on_text_message", "on_stream_start", "on_stream_data", "on_stream_stop",
     "on_channel_status", "on_online_status"}

\* IncomingMessage, and what follows Ok(Some(..)) / Ok(None) / Err(..) of receive
Msg(family, variant, seq_, success, refresh_token_, error) ==
    [family |-> family, variant |-> variant, seq |-> seq_, success |-> success,
     refresh_token |-> refresh_token_, error |-> error, event |-> NoEvent]
NoMsg == Msg("", "", 0, FALSE, "", None)

\* serde(untagged) Response: Logon needs seq, success, refresh_token; Generic seq, success
is_response_logon(j) == is_some(j.seq) /\ is_some(j.success) /\ is_some(j.refresh_token)
is_response_generic(j) == is_some(j.seq) /\ is_some(j.success)
\* serde(tag = "command") Error: on_error with error
is_error(j) == j.command = "on_error" /\ is_some(j.error)
\* serde(tag = "command") Event
is_event(j) == j.command \in EventCommands /\ j.rest

\* decode_text with a text of no known shape passed on as an event
decode_text_lenient(j) ==
    IF is_response_logon(j)
    THEN Msg("Response", "Logon", unwrap(j.seq), unwrap(j.success), unwrap(j.refresh_token), j.error)
    ELSE IF is_response_generic(j)
    THEN Msg("Response", "Generic", unwrap(j.seq), unwrap(j.success), "", j.error)
    ELSE IF is_error(j)
    THEN Msg("Error", "Error", 0, FALSE, "", j.error)
    ELSE [Msg("Event", j.command, 0, FALSE, "", None) EXCEPT !.event = j.event]

\* serde_json::from_str::<IncomingMessage>: untagged, variants tried in declaration order
decode_text(j) ==
    IF is_response_logon(j)
    THEN Msg("Response", "Logon", unwrap(j.seq), unwrap(j.success), unwrap(j.refresh_token), j.error)
    ELSE IF is_response_generic(j)
    THEN Msg("Response", "Generic", unwrap(j.seq), unwrap(j.success), "", j.error)
    ELSE IF is_error(j)
    THEN Msg("Error", "Error", 0, FALSE, "", j.error)
    ELSE IF is_event(j)
    THEN [Msg("Event", j.command, 0, FALSE, "", None) EXCEPT !.event = j.event]
    ELSE Msg("JsonError", "", 0, FALSE, "", None)

(***************************************************************************)
(* Inbound frames: what self.ws.next() yields.                             *)
(***************************************************************************)
Frame(kind, json, data) == [kind |-> kind, json |-> json, data |-> data]
Text(j) == Frame("text", j, <<>>)
Binary(data) == Frame("binary", NoJson, data)
Ping == Frame("ping", NoJson, <<>>)
Pong == Frame("pong", NoJson, <<>>)
Close == Frame("close", NoJson, <<>>)
RawFrame == Frame("frame", NoJson, <<>>)
\* Some(Err(e))
TransportError == Frame("error", NoJson, <<>>)

\* the length of the header of a binary frame: get_u8, get_u32, get_u32
BinaryHeaderLen == 9

\* the two 16-bit halves of a u32 held as its bit pattern
lo16(x) == x % 65536
hi16(x) == (x \div 65536) % 65536

\* get_u32 reading the four bytes little-endian (Buf::get_u32_le)
get_u32_le(b) ==
    LET hi == b[4] * 256 + b[3]
        lo == b[2] * 256 + b[1]
    IN  (IF hi >= 32768 THEN hi - 65536 ELSE hi) * 65536 + lo

\* Buf::get_u32 on four bytes, big-endian, as an i32 bit pattern
get_u32(b) ==
    LET hi == b[1] * 256 + b[2]
        lo == b[3] * 256 + b[4]
    IN  (IF hi >= 32768 THEN hi - 65536 ELSE hi) * 65536 + lo

\* the Event::AudioData that receive builds from a binary frame of 9 bytes or more
audio_data_event(data) ==
    EventFields(get_u32(SubSeq(data, 2, 5)), "", "", "", None,
                get_u32(SubSeq(data, 6, 9)), SubSeq(data, BinaryHeaderLen + 1, Len(data)))

\* One turn of the loop of Protocol::receive on frame f:
\* "continue" (ping, pong), or the value returned, or a panic (Buf::get_* on a short buffer)
Ret(ret, err, msg) == [ret |-> ret, err |-> err, msg |-> msg]

\* receive_frame with a close frame taken for the end of the stream
receive_frame_close_is_end(f) ==
    CASE f.kind = "text" ->
            LET m == decode_text(f.json) IN
            IF m.family = "JsonError" THEN Ret("Err", "JsonError", NoMsg) ELSE Ret("Some", "", m)
      [] f.kind = "binary" ->
            IF Len(f.data) < BinaryHeaderLen
            THEN Ret("Panic", "", NoMsg)
            ELSE Ret("Some", "",
                     [Msg("Event", "on_stream_data", 0, FALSE, "", None)
                         EXCEPT !.event = audio_data_event(f.data)])
      [] f.kind \in {"ping", "pong"} -> Ret("Continue", "", NoMsg)
      [] f.kind = "close" -> Ret("None", "", NoMsg)
      [] f.kind = "frame" -> Ret("Err", "ProtocolError", NoMsg)
      [] f.kind = "error" -> Ret("Err", "WebSocketError", NoMsg)

receive_frame(f) ==
    CASE f.kind = "text" ->
            LET m == decode_text(f.json) IN
            IF m.family = "JsonError" THEN Ret("Err", "JsonError", NoMsg) ELSE Ret("Some", "", m)
      [] f.kind = "binary" ->
            IF Len(f.data) < BinaryHeaderLen
            THEN Ret("Panic", "", NoMsg)
            ELSE Ret("Some", "",
                     [Msg("Event", "on_stream_data", 0, FALSE, "", None)
                         EXCEPT !.event = audio_data_event(f.data)])
      [] f.kind \in {"ping", "pong"} -> Ret("Continue", "", NoMsg)
      [] f.kind = "close" -> Ret("Err", "ConnectionError", NoMsg)
      [] f.kind = "frame" -> Ret("Err", "ProtocolError", NoMsg)
      [] f.kind = "error" -> Ret("Err", "WebSocketError", NoMsg)
\* the stream has ended: self.ws.next() yields None
receive_end == Ret("None", "", NoMsg)
\* the bounded wait expired: timeout(..).await is Err(Elapsed)
receive_elapsed == Ret("Elapsed", "", NoMsg)

(***************************************************************************)
(* The state.                                                              *)
(***************************************************************************)
VARIABLES
    pc,                     \* where the session-owning task is
    config,                 \* ZelloClient.config
    authenticated,          \* ZelloClient.authenticated
    refresh_token,          \* ZelloClient.refresh_token
    active_streams,         \* ZelloClient.active_streams: HashMap<u32, StreamInfo>
    active_inbound_streams, \* ZelloClient.active_inbound_streams
    sequence,               \* Protocol.sequence
    ws,                     \* Protocol.ws: "none", "open" or "down"
    sent,                   \* the frames written to the connection, in order
    inbox,                  \* the frames the connection will yield, in order
    waited,                 \* time units spent in the current bounded wait
    seq,                    \* the local `seq` of the request being awaited
    result,                 \* what the last operation returned
    pcm_queue,              \* the bounded channel of decoded buffers (pcm_tx / pcm_rx)
    pcm_rx,                 \* the Mutex around the Receiver: "free" or "held"
    decoder,                \* the Mutex around the Decoder: "free" or "held"
    packet,                 \* the `data` of the handle_audio_data in progress
    buffer,                 \* the playback callback's VecDeque of samples
    output,                 \* the slice the playback callback is filling
    cb,                     \* where the playback callback is
    packets,                \* how many audio packets the peer has sent
    turns,                  \* the turns the loop of the last Protocol::receive took
    input                   \* the value that a function explored on its own is applied to

vars ==
    <<pc, config, authenticated, refresh_token, active_streams, active_inbound_streams,
      sequence, ws, sent, inbox, waited, seq, result,
      pcm_queue, pcm_rx, decoder, packet, buffer, output, cb, packets, turns, input>>

\* what the audio path owns: the sample queue, the decoder and the playback callback
audio == <<pcm_queue, pcm_rx, decoder, packet, buffer, output, cb, packets>>

session == <<config, authenticated, refresh_token, active_streams, active_inbound_streams>>

(***************************************************************************)
(* The inputs of the model.                                                *)
(***************************************************************************)
Strings == {"", "dummy"}
OptStrings == {None} \cup {Some(s_) : s_ \in Strings}
Configs ==
    [username : OptStrings, password : OptStrings, auth_token : OptStrings, channel : Strings]
NoConfig == [username |-> None, password |-> None, auth_token |-> None, channel |-> ""]

\* the sequence numbers a Response may carry
RespSeqs == 1 .. MaxSeq
\* the stream ids a caller may name: those a start can return, and a never-started one
StreamIds == (2 .. MaxSeq) \cup {999}
InboundIds == {7}
Codecs == {"opus"}
AudioPayloads == {<<0>>, <<1, 200>>}

StreamInfo(channel, codec, callsign) == [channel |-> channel, codec |-> codec, callsign |-> callsign]
EmptyMap == [k \in {} |-> StreamInfo("", "", None)]
insert(map, k, v) == [x \in (DOMAIN map) \cup {k} |-> IF x = k THEN v ELSE map[x]]
remove(map, k) == [x \in (DOMAIN map) \ {k} |-> map[x]]
contains_key(map, k) == k \in DOMAIN map

\* Inbound frames of the model.  The responses to a logon:
LogonOk(seq_) == Text(Json("", Some(seq_), Some(TRUE), Some("rt"), None, FALSE))
LogonFailed(seq_, error) == Text(Json("", Some(seq_), Some(FALSE), Some(""), error, FALSE))
\* the responses to the other requests; a failed logon is answered with one as well
\* (no refresh_token is granted)
GenericOk(seq_) == Text(Json("", Some(seq_), Some(TRUE), None, None, FALSE))
GenericFailed(seq_, error) == Text(Json("", Some(seq_), Some(FALSE), None, error, FALSE))
\* an event and an error notice
ChannelStatus == Text(Json("on_channel_status", None, None, None, None, TRUE))
ErrorNotice == Text(Json("on_error", None, None, None, Some("kicked"), FALSE))

\* the frames the server and the network produce while a session is used
ServerFrames ==
    {LogonOk(1)}
    \cup {GenericOk(s_) : s_ \in 2 .. MaxSeq}
    \cup {GenericFailed(s_, None) : s_ \in 2 .. MaxSeq}
    \cup {ChannelStatus, Ping, Close}

\* the frames the server and the network produce while a session is constructed
LogonFrames ==
    {LogonOk(s_) : s_ \in 1 .. 2}
    \cup {LogonFailed(1, e_) : e_ \in {None, Some("bad token")}}
    \cup {GenericOk(1), GenericFailed(1, Some("bad token"))}
    \cup {ChannelStatus, ErrorNotice, Ping, Pong, Close, RawFrame, TransportError}

Terminal(f) == f.kind \in {"close", "error"}

\* the inputs of the functions explored on their own: a CodecHeader or a byte buffer
Input(type, header, bytes) == [type |-> type, header |-> header, bytes |-> bytes]
NoInput == Input("", [sample_rate_hz |-> 0, frames_per_packet |-> 0, frame_size_ms |-> 0], <<>>)

Init ==
    /\ pc = "start"
    /\ config = NoConfig
    /\ authenticated = FALSE
    /\ refresh_token = ""
    /\ active_streams = EmptyMap
    /\ active_inbound_streams = EmptyMap
    /\ sequence = 0
    /\ ws = "none"
    /\ sent = <<>>
    /\ inbox = <<>>
    /\ waited = 0
    /\ seq = 0
    /\ result = NoResult
    /\ pcm_queue = <<>>
    /\ pcm_rx = "free"
    /\ decoder = "free"
    /\ packet = <<>>
    /\ buffer = <<>>
    /\ output = [len |-> 0, samples |-> <<>>]
    /\ cb = "idle"
    /\ packets = 0
    /\ turns = 0
    /\ input = NoInput

(***************************************************************************)
(* The transport.                                                          *)
(***************************************************************************)
\* Protocol::send / send_audio_data: the write succeeds on an open connection
can_send == ws = "open"

\* WebSocketStream::next on the current state, inside a wait bounded by `limit`:
\* the outcomes Protocol::receive can return now (none while it has to wait on)
receive(limit) ==
    IF inbox # <<>>
    THEN {receive_frame(Head(inbox))} \ {Ret("Continue", "", NoMsg)}
    ELSE IF ws # "open" THEN {receive_end}
    ELSE IF waited >= limit THEN {receive_elapsed}
    ELSE {}

\* the connection after Protocol::receive returned: the frame read is gone, and a
\* close frame or a transport error ends the stream
consume ==
    /\ inbox' = IF inbox # <<>> THEN Tail(inbox) ELSE inbox
    /\ ws' = IF inbox # <<>> /\ Terminal(Head(inbox)) THEN "down" ELSE ws

Waiting == pc \in {"auth_wait", "start_wait"}

\* Protocol::receive loops past a ping or a pong
receive_continue ==
    /\ Waiting
    /\ inbox # <<>>
    /\ receive_frame(Head(inbox)).ret = "Continue"
    /\ inbox' = Tail(inbox)
    /\ UNCHANGED <<pc, session, sequence, ws, sent, waited, seq, result>>
    /\ UNCHANGED audio
    /\ UNCHANGED <<turns, input>>

\* one time unit passes while an operation waits and no frame is there
Tick ==
    /\ Waiting
    /\ inbox = <<>>
    /\ ws = "open"
    /\ waited < (IF pc = "auth_wait" THEN LogonTimeout ELSE StartStreamTimeout)
    /\ waited' = waited + 1
    /\ UNCHANGED <<pc, session, sequence, ws, sent, inbox, seq, result>>
    /\ UNCHANGED audio
    /\ UNCHANGED <<turns, input>>

\* The server or the network delivers a frame of `frames`.  A frame that arrives while
\* no receive is pending stays in the connection and is read by the next receive, as if
\* it had arrived at the beginning of that wait: frames are delivered during the waits.
\* A wait ends with the first frame read whenever that frame arrives, so the frames of
\* a wait are delivered at its beginning, and a wait that got none runs to its limit.
deliver(frames) ==
    /\ Waiting
    /\ waited = 0
    /\ ws = "open"
    /\ Len(inbox) < MaxInbox
    /\ \A i \in 1 .. Len(inbox) : ~Terminal(inbox[i])
    /\ \E f \in frames : inbox' = Append(inbox, f)
    /\ UNCHANGED <<pc, session, sequence, ws, sent, waited, seq, result>>
    /\ UNCHANGED audio
    /\ UNCHANGED <<turns, input>>

Server == deliver(ServerFrames)
LogonServer == deliver(LogonFrames)

(***************************************************************************)
(* ZelloClient::new and ZelloClient::authenticate                          *)
(***************************************************************************)
\* authenticate, after the receive: the arm of the match that the response selects
\* (the timeout's map_err and the `?` on an Err come first)
authenticate_arm(r) ==
    IF r.ret = "Elapsed" THEN "elapsed"
    ELSE IF r.ret = "Err" THEN "err"
    ELSE IF r.ret = "Some" /\ r.msg.family = "Response" /\ r.msg.variant = "Logon" /\ r.msg.success
    THEN "logon_success"
    ELSE IF r.ret = "Some" /\ r.msg.family = "Response" /\ r.msg.variant = "Logon"
    THEN "logon_failure"
    ELSE "unexpected"

\* authenticate_match with the timeout's error left as the fallback arm's
authenticate_match_elapsed_unmapped(r) ==
    CASE authenticate_arm(r) = "elapsed" ->
            Err("new", "ProtocolError", "Unexpected response to logon")
      [] authenticate_arm(r) = "err" -> Err("new", r.err, "")
      [] authenticate_arm(r) = "logon_success" -> Ok("new", 0)
      [] authenticate_arm(r) = "logon_failure" ->
            Err("new", "AuthenticationError", unwrap_or_default(r.msg.error))
      [] authenticate_arm(r) = "unexpected" ->
            Err("new", "ProtocolError", "Unexpected response to logon")

\* authenticate_match with the fallback arm returning Ok(())
authenticate_match_fallback_ok(r) ==
    CASE authenticate_arm(r) = "elapsed" -> Err("new", "Timeout", "")
      [] authenticate_arm(r) = "err" -> Err("new", r.err, "")
      [] authenticate_arm(r) = "logon_success" -> Ok("new", 0)
      [] authenticate_arm(r) = "logon_failure" ->
            Err("new", "AuthenticationError", unwrap_or_default(r.msg.error))
      [] authenticate_arm(r) = "unexpected" -> Ok("new", 0)

\* what authenticate returns, and with it new
authenticate_match(r) ==
    CASE authenticate_arm(r) = "elapsed" -> Err("new", "Timeout", "")
      [] authenticate_arm(r) = "err" -> Err("new", r.err, "")
      [] authenticate_arm(r) = "logon_success" -> Ok("new", 0)
      [] authenticate_arm(r) = "logon_failure" ->
            Err("new", "AuthenticationError", unwrap_or_default(r.msg.error))
      [] authenticate_arm(r) = "unexpected" ->
            Err("new", "ProtocolError", "Unexpected response to logon")

\* new: config.validate()?, Protocol::connect(None).await?, the client is built and
\* authenticate builds the logon request.  The network refuses the connection, or
\* opens it, or opens it and drops it before the first write.
new(cfg) ==
    /\ pc = "start"
    /\ \E net \in {"refused", "open", "down"} :
        IF validate(cfg).status = "Err"
        THEN /\ result' = validate(cfg)
             /\ pc' = "failed"
             /\ UNCHANGED <<session, sequence, ws, sent, inbox, waited, seq>>
        ELSE IF net = "refused"
        THEN /\ result' = Err("new", "ConnectionError", "")
             /\ pc' = "failed"
             /\ UNCHANGED <<session, sequence, ws, sent, inbox, waited, seq>>
        ELSE /\ config' = cfg
             /\ authenticated' = FALSE
             /\ active_streams' = EmptyMap
             /\ active_inbound_streams' = EmptyMap
             /\ refresh_token' = ""
             /\ ws' = net
             /\ seq' = next_seq_value(InitialSequence)
             /\ sequence' = next_seq_after(InitialSequence)
             /\ pc' = "auth_send"
             /\ UNCHANGED <<sent, inbox, waited, result>>
    /\ UNCHANGED audio
    /\ UNCHANGED <<turns, input>>

\* authenticate: self.protocol.send(message).await?
authenticate_send ==
    /\ pc = "auth_send"
    /\ IF can_send
       THEN /\ sent' = Append(sent, logon(seq))
            /\ pc' = "auth_wait"
            /\ waited' = 0
            /\ UNCHANGED result
       ELSE /\ result' = Err("new", "ConnectionError", "")
            /\ pc' = "failed"
            /\ UNCHANGED <<sent, waited>>
    /\ UNCHANGED <<session, sequence, ws, inbox, seq>>
    /\ UNCHANGED audio
    /\ UNCHANGED <<turns, input>>

\* authenticate: the bounded receive and the match; new returns the client on Ok
\* (client.authenticate().await?; Ok(client))
authenticate ==
    /\ pc = "auth_wait"
    /\ \E r \in receive(LogonTimeout) :
        /\ consume
        /\ IF r.ret = "Panic"
           THEN /\ pc' = "panicked"
                /\ UNCHANGED <<authenticated, refresh_token, result>>
           ELSE /\ result' = authenticate_match(r)
                /\ pc' = IF authenticate_match(r).status = "Ok" THEN "ready" ELSE "failed"
                /\ authenticated' =
                       IF authenticate_arm(r) = "logon_success" THEN TRUE ELSE authenticated
                /\ refresh_token' =
                       IF authenticate_arm(r) = "logon_success"
                       THEN r.msg.refresh_token ELSE refresh_token
    /\ UNCHANGED <<config, active_streams, active_inbound_streams, sequence, sent, waited, seq>>
    /\ UNCHANGED audio
    /\ UNCHANGED <<turns, input>>

(***************************************************************************)
(* The operations of a client that new returned.                           *)
(***************************************************************************)
\* the bound of the model on the requests issued and the frames written
InBounds == sequence <= MaxSeq /\ Len(sent) < MaxSent

\* send_text_message
send_text_message ==
    /\ pc = "ready"
    /\ InBounds
    /\ IF ~authenticated
       THEN /\ result' = Err("send_text_message", "NotConnected", "")
            /\ UNCHANGED <<sequence, sent>>
       ELSE /\ sequence' = next_seq_after(sequence)
            /\ IF can_send
               THEN /\ sent' = Append(sent, send_text(next_seq_value(sequence)))
                    /\ result' = Ok("send_text_message", 0)
               ELSE /\ result' = Err("send_text_message", "ConnectionError", "")
                    /\ UNCHANGED sent
    /\ UNCHANGED <<pc, session, ws, inbox, waited, seq>>
    /\ UNCHANGED audio
    /\ UNCHANGED <<turns, input>>

\* start_audio_stream, up to the bounded receive: the check, next_seq, the send
start_audio_stream_send ==
    /\ pc = "ready"
    /\ InBounds
    /\ IF ~authenticated
       THEN /\ result' = Err("start_audio_stream", "NotConnected", "")
            /\ UNCHANGED <<pc, sequence, sent, waited, seq>>
       ELSE /\ seq' = next_seq_value(sequence)
            /\ sequence' = next_seq_after(sequence)
            /\ IF can_send
               THEN /\ sent' = Append(sent, start_stream(next_seq_value(sequence)))
                    /\ pc' = "start_wait"
                    /\ waited' = 0
                    /\ UNCHANGED result
               ELSE /\ result' = Err("start_audio_stream", "ConnectionError", "")
                    /\ UNCHANGED <<pc, sent, waited>>
    /\ UNCHANGED <<session, ws, inbox>>
    /\ UNCHANGED audio
    /\ UNCHANGED <<turns, input>>

\* start_audio_stream, after the receive: the arm of the match that the response
\* selects (the timeout's map_err and the `?` on an Err come first)
start_audio_stream_arm(r) ==
    IF r.ret = "Elapsed" THEN "elapsed"
    ELSE IF r.ret = "Err" THEN "err"
    ELSE IF r.ret = "Some" /\ r.msg.family = "Response" /\ r.msg.variant = "Generic" /\ r.msg.success
    THEN "success"
    ELSE IF r.ret = "Some" /\ r.msg.family = "Response" /\ r.msg.variant = "Generic"
    THEN "failure"
    ELSE "unexpected"

\* what start_audio_stream returns
start_audio_stream_match(r, seq_) ==
    CASE start_audio_stream_arm(r) = "elapsed" -> Err("start_audio_stream", "Timeout", "")
      [] start_audio_stream_arm(r) = "err" -> Err("start_audio_stream", r.err, "")
      [] start_audio_stream_arm(r) = "success" -> Ok("start_audio_stream", seq_)
      [] start_audio_stream_arm(r) = "failure" ->
            Err("start_audio_stream", "AudioError",
                unwrap_or_else(r.msg.error, "Failed to start stream"))
      [] start_audio_stream_arm(r) = "unexpected" ->
            Err("start_audio_stream", "ProtocolError", "Unexpected response to start_stream")

\* start_audio_stream_record with the insert moved before the match
start_audio_stream_record_every_arm(r, streams, seq_, channel, codec) ==
    insert(streams, seq_, StreamInfo(channel, codec, None))

\* what start_audio_stream leaves in active_streams: the success arm inserts the stream
start_audio_stream_record(r, streams, seq_, channel, codec) ==
    IF start_audio_stream_arm(r) = "success"
    THEN insert(streams, seq_, StreamInfo(channel, codec, None))
    ELSE streams

\* start_audio_stream: the bounded receive and the match
start_audio_stream ==
    /\ pc = "start_wait"
    /\ \E r \in receive(StartStreamTimeout), codec \in Codecs :
        /\ consume
        /\ IF r.ret = "Panic"
           THEN /\ pc' = "panicked"
                /\ UNCHANGED <<active_streams, result>>
           ELSE /\ result' = start_audio_stream_match(r, seq)
                /\ pc' = "ready"
                /\ active_streams' =
                       start_audio_stream_record(r, active_streams, seq, config.channel, codec)
    /\ UNCHANGED <<config, authenticated, refresh_token, active_inbound_streams,
                   sequence, sent, waited, seq>>
    /\ UNCHANGED audio
    /\ UNCHANGED <<turns, input>>

\* send_audio_packet without the contains_key check
send_audio_packet_unchecked(stream_id, data) ==
    /\ pc = "ready"
    /\ Len(sent) < MaxSent
    /\ IF can_send
       THEN /\ sent' = Append(sent, BinaryOut(data))
            /\ result' = Ok("send_audio_packet", 0)
       ELSE /\ result' = Err("send_audio_packet", "AudioError", "")
            /\ UNCHANGED sent
    /\ UNCHANGED <<pc, session, sequence, ws, inbox, waited, seq>>
    /\ UNCHANGED audio
    /\ UNCHANGED <<turns, input>>

\* send_audio_packet
send_audio_packet(stream_id, data) ==
    /\ pc = "ready"
    /\ Len(sent) < MaxSent
    /\ IF ~contains_key(active_streams, stream_id)
       THEN /\ result' = Err("send_audio_packet", "AudioError", "Invalid stream ID")
            /\ UNCHANGED sent
       ELSE IF can_send
       THEN /\ sent' = Append(sent, BinaryOut(data))
            /\ result' = Ok("send_audio_packet", 0)
       ELSE /\ result' = Err("send_audio_packet", "AudioError", "")
            /\ UNCHANGED sent
    /\ UNCHANGED <<pc, session, sequence, ws, inbox, waited, seq>>
    /\ UNCHANGED audio
    /\ UNCHANGED <<turns, input>>

\* stop_audio_stream with the entry left in the map
stop_audio_stream_keeps_entry(stream_id) ==
    /\ pc = "ready"
    /\ contains_key(active_streams, stream_id) => InBounds
    /\ IF ~contains_key(active_streams, stream_id)
       THEN /\ result' = Err("stop_audio_stream", "AudioError", "Invalid stream ID")
            /\ UNCHANGED <<sequence, sent>>
       ELSE /\ sequence' = next_seq_after(sequence)
            /\ IF can_send
               THEN /\ sent' = Append(sent, stop_stream(next_seq_value(sequence), stream_id))
                    /\ result' = Ok("stop_audio_stream", 0)
               ELSE /\ result' = Err("stop_audio_stream", "ConnectionError", "")
                    /\ UNCHANGED sent
    /\ UNCHANGED <<pc, session, ws, inbox, waited, seq>>
    /\ UNCHANGED audio
    /\ UNCHANGED <<turns, input>>

\* stop_audio_stream
stop_audio_stream(stream_id) ==
    /\ pc = "ready"
    /\ contains_key(active_streams, stream_id) => InBounds
    /\ IF ~contains_key(active_streams, stream_id)
       THEN /\ result' = Err("stop_audio_stream", "AudioError", "Invalid stream ID")
            /\ UNCHANGED <<sequence, sent, active_streams>>
       ELSE /\ sequence' = next_seq_after(sequence)
            /\ IF can_send
               THEN /\ sent' = Append(sent, stop_stream(next_seq_value(sequence), stream_id))
                    /\ active_streams' = remove(active_streams, stream_id)
                    /\ result' = Ok("stop_audio_stream", 0)
               ELSE /\ result' = Err("stop_audio_stream", "ConnectionError", "")
                    /\ UNCHANGED <<sent, active_streams>>
    /\ UNCHANGED <<pc, config, authenticated, refresh_token, active_inbound_streams,
                   ws, inbox, waited, seq>>
    /\ UNCHANGED audio
    /\ UNCHANGED <<turns, input>>

\* add_inbound_stream
add_inbound_stream(stream_id, channel, codec, callsign) ==
    /\ pc = "ready"
    /\ active_inbound_streams' =
           insert(active_inbound_streams, stream_id, StreamInfo(channel, codec, callsign))
    /\ result' = Ok("add_inbound_stream", 0)
    /\ UNCHANGED <<pc, config, authenticated, refresh_token, active_streams,
                   sequence, ws, sent, inbox, waited, seq>>
    /\ UNCHANGED audio
    /\ UNCHANGED <<turns, input>>

\* remove_inbound_stream
remove_inbound_stream(stream_id) ==
    /\ pc = "ready"
    /\ active_inbound_streams' = remove(active_inbound_streams, stream_id)
    /\ result' = Ok("remove_inbound_stream", 0)
    /\ UNCHANGED <<pc, config, authenticated, refresh_token, active_streams,
                   sequence, ws, sent, inbox, waited, seq>>
    /\ UNCHANGED audio
    /\ UNCHANGED <<turns, input>>

\* close(self): the close handshake; the client is consumed
close ==
    /\ pc = "ready"
    /\ pc' = "closed"
    /\ ws' = "down"
    /\ result' = IF can_send THEN Ok("close", 0) ELSE Err("close", "ConnectionError", "")
    /\ inbox' = <<>>
    /\ UNCHANGED <<session, sequence, sent, waited, seq>>
    /\ UNCHANGED audio
    /\ UNCHANGED <<turns, input>>

(***************************************************************************)
(* The specification.                                                      *)
(***************************************************************************)
Next ==
    \/ \E cfg \in Configs : new(cfg)
    \/ authenticate_send
    \/ authenticate
    \/ send_text_message
    \/ start_audio_stream_send
    \/ start_audio_stream
    \/ \E stream_id \in StreamIds, data \in AudioPayloads : send_audio_packet(stream_id, data)
    \/ \E stream_id \in StreamIds : stop_audio_stream(stream_id)
    \/ \E stream_id \in InboundIds : add_inbound_stream(stream_id, "dummy", "opus", Some("alice"))
    \/ \E stream_id \in InboundIds : remove_inbound_stream(stream_id)
    \/ close
    \/ receive_continue
    \/ Tick
    \/ Server

Spec == Init /\ [][Next]_vars

\* the construction of a session alone, against every kind of frame
LogonNext ==
    \/ \E cfg \in Configs : new(cfg)
    \/ authenticate_send
    \/ authenticate
    \/ receive_continue
    \/ Tick
    \/ LogonServer

LogonSpec == Init /\ [][LogonNext]_vars

(***************************************************************************)
(* Protocol used on its own: connect and next_seq, on counters taken       *)
(* around the three places where 32-bit arithmetic could break.            *)
(***************************************************************************)
\* the u32 counter values explored, as i32 bit patterns: around 0 and u32::MAX,
\* below 2^31, and from 2^31 up
SeqInputs ==
    ((-MaxWrap) .. MaxWrap)
    \cup {I32Max - k : k \in 0 .. MaxWrap}
    \cup {(-I32Max) - 1 + k : k \in 0 .. MaxWrap}

\* a Protocol that next_seq was called on some number of times
ProtocolInit ==
    /\ pc = "protocol"
    /\ sequence \in SeqInputs
    /\ ws = "open"
    /\ config = NoConfig
    /\ authenticated = FALSE
    /\ refresh_token = ""
    /\ active_streams = EmptyMap
    /\ active_inbound_streams = EmptyMap
    /\ sent = <<>>
    /\ inbox = <<>>
    /\ waited = 0
    /\ seq = 0
    /\ result = NoResult
    /\ pcm_queue = <<>>
    /\ pcm_rx = "free"
    /\ decoder = "free"
    /\ packet = <<>>
    /\ buffer = <<>>
    /\ output = [len |-> 0, samples |-> <<>>]
    /\ cb = "idle"
    /\ packets = 0
    /\ turns = 0
    /\ input = NoInput

\* Protocol::connect: a new Protocol, in place of the one there was
connect ==
    /\ pc = "protocol"
    /\ \E net \in {"refused", "open"} :
        IF net = "refused"
        THEN /\ result' = Err("connect", "ConnectionError", "")
             /\ UNCHANGED <<sequence, ws>>
        ELSE /\ result' = Ok("connect", 0)
             /\ ws' = "open"
             /\ sequence' = InitialSequence
    /\ UNCHANGED <<pc, session, sent, inbox, waited, seq, audio, turns, input>>

\* Protocol::next_seq
next_seq ==
    /\ pc = "protocol"
    /\ sequence \in SeqInputs
    /\ seq' = next_seq_value(sequence)
    /\ sequence' = next_seq_after(sequence)
    /\ result' = Ok("next_seq", 0)
    /\ UNCHANGED <<pc, session, ws, sent, inbox, waited, audio, turns, input>>

ProtocolNext ==
    \/ connect
    \/ next_seq

ProtocolSpec == ProtocolInit /\ [][ProtocolNext]_vars

(***************************************************************************)
(* Protocol::receive called on its own, on the frames the connection holds *)
(* when it is called.                                                      *)
(***************************************************************************)
\* the bytes of two inbound binary frames: a type byte, a stream id, a packet id and
\* a payload; the second has ids at and above 2^31
AudioBytes == <<1, 1, 2, 3, 4, 5, 6, 7, 8, 9, 10>>
AudioBytesHigh == <<1, 255, 254, 253, 252, 128, 0, 0, 1, 200>>

\* the frames the connection may hold: text that decodes and text that does not, binary
\* frames of every length from 0 to that of AudioBytes, and each of the other kinds
ReceiveFrames ==
    {ChannelStatus, Text(NoJson), Ping, Pong, Close, RawFrame, TransportError}
    \cup {Binary(SubSeq(AudioBytes, 1, n)) : n \in 0 .. Len(AudioBytes)}
    \cup {Binary(AudioBytesHigh)}

\* what the connection may hold: up to MaxFrames frames, none after a close frame or a
\* transport error
ReceiveInboxes ==
    {q \in UNION {[1 .. n -> ReceiveFrames] : n \in 0 .. MaxFrames} :
        \A i \in 1 .. (Len(q) - 1) : ~Terminal(q[i])}

\* a connected Protocol and the frames that have arrived
ReceiveInit ==
    /\ pc = "protocol"
    /\ sequence = InitialSequence
    /\ ws = "open"
    /\ inbox \in ReceiveInboxes
    /\ config = NoConfig
    /\ authenticated = FALSE
    /\ refresh_token = ""
    /\ active_streams = EmptyMap
    /\ active_inbound_streams = EmptyMap
    /\ sent = <<>>
    /\ waited = 0
    /\ seq = 0
    /\ result = NoResult
    /\ pcm_queue = <<>>
    /\ pcm_rx = "free"
    /\ decoder = "free"
    /\ packet = <<>>
    /\ buffer = <<>>
    /\ output = [len |-> 0, samples |-> <<>>]
    /\ cb = "idle"
    /\ packets = 0
    /\ turns = 0
    /\ input = NoInput

\* receive_loop that looks past one ping or pong at most
receive_loop_skips_one(frames) ==
    IF frames = <<>>
    THEN [r |-> receive_end, rest |-> <<>>, turns |-> 1]
    ELSE IF receive_frame(Head(frames)).ret = "Continue" /\ Tail(frames) # <<>>
    THEN [r |-> receive_frame(Head(Tail(frames))), rest |-> Tail(Tail(frames)), turns |-> 2]
    ELSE [r |-> receive_frame(Head(frames)), rest |-> Tail(frames), turns |-> 1]

\* the loop of Protocol::receive over the frames the stream yields: what the first turn
\* that returns returns, the frames left, and the turns taken; receive_end when the
\* frames run out
RECURSIVE receive_loop(_)
receive_loop(frames) ==
    IF frames = <<>>
    THEN [r |-> receive_end, rest |-> <<>>, turns |-> 1]
    ELSE IF receive_frame(Head(frames)).ret = "Continue"
    THEN [receive_loop(Tail(frames)) EXCEPT !.turns = @ + 1]
    ELSE [r |-> receive_frame(Head(frames)), rest |-> Tail(frames), turns |-> 1]

\* Result<Option<IncomingMessage>>: what receive returns for the turn's outcome r
receive_result(r) ==
    IF r.ret = "Some" THEN Ok("receive", Some(r.msg))
    ELSE IF r.ret = "None" THEN Ok("receive", None)
    ELSE Err("receive", r.err, "")

\* Protocol::receive, from the call to the return.  While the connection is open and
\* holds nothing that ends the loop, the call waits: it returns when it can.
Protocol_receive ==
    /\ pc = "protocol"
    /\ LET l == receive_loop(inbox) IN
        /\ l.r = receive_end => ws # "open"
        /\ inbox' = l.rest
        /\ turns' = l.turns
        /\ ws' = IF l.r.ret = "Err" /\ l.r.err \in {"ConnectionError", "WebSocketError"}
                 THEN "down" ELSE ws
        /\ IF l.r.ret = "Panic"
           THEN /\ pc' = "panicked"
                /\ UNCHANGED result
           ELSE /\ result' = receive_result(l.r)
                /\ UNCHANGED pc
    /\ UNCHANGED <<session, sequence, sent, waited, seq, audio, input>>

\* the transport reports the end of input: the stream yields None once the frames
\* that arrived are read
end_of_input ==
    /\ pc = "protocol"
    /\ ws = "open"
    /\ ws' = "down"
    /\ UNCHANGED <<pc, session, sequence, sent, inbox, waited, seq, result, audio, turns, input>>

ReceiveNext ==
    \/ Protocol_receive
    \/ end_of_input

ReceiveSpec == ReceiveInit /\ [][ReceiveNext]_vars

(***************************************************************************)
(* Protocol::send called on its own, on the requests a caller can build.   *)
(***************************************************************************)
\* the requests: each constructor of Message, and a StartStream with a codec header
Messages ==
    UNION {{Message_logon_password(s_, "dummy", "dummy", "dummy", "dummy"),
            Message_logon_token(s_, "dummy", "dummy"),
            Message_send_text(s_, "dummy", "Hello"),
            Message_send_text_for_callsign(s_, "dummy", "Hello", "alice"),
            Message_start_stream(s_, "dummy", "opus", 60),
            Message_StartStream(s_, "dummy", None, "opus", Some("gD4BPA=="), 60),
            Message_stop_stream(s_, 2)} : s_ \in 1 .. 2}

\* a connected Protocol
EncodeInit == ProtocolInit /\ sequence = InitialSequence

\* Protocol::send
Protocol_send(message) ==
    /\ pc = "protocol"
    /\ Len(sent) < MaxEncoded
    /\ IF can_send
       THEN /\ sent' = Append(sent, TextJson(to_string(message)))
            /\ result' = Ok("send", 0)
       ELSE /\ result' = Err("send", "ConnectionError", "")
            /\ UNCHANGED sent
    /\ UNCHANGED <<pc, session, sequence, ws, inbox, waited, seq, audio, turns, input>>

EncodeNext == \E message \in Messages : Protocol_send(message)

EncodeSpec == EncodeInit /\ [][EncodeNext]_vars

(***************************************************************************)
(* The message loop and the handlers (src/src/handlers.rs).                *)
(***************************************************************************)
\* lib.rs: the capacity the sample queue is created with
PCM_CHANNEL_CAPACITY == 20

\* CodecHeader, and CodecHeader::default()
CodecHeader(sample_rate_hz, frames_per_packet, frame_size_ms) ==
    [sample_rate_hz |-> sample_rate_hz, frames_per_packet |-> frames_per_packet,
     frame_size_ms |-> frame_size_ms]
CodecHeader_default == CodecHeader(16000, 1, 60)

\* STANDARD.decode on the header strings of the model: the bytes, or None for Err
base64_decode(encoded) ==
    CASE encoded = "gD4BPA==" -> Some(<<128, 62, 1, 60>>)
      [] encoded = "gD4B" -> Some(<<128, 62, 1>>)
      [] OTHER -> None

\* CodecHeader::from_bytes: the header, or None for Err
from_bytes(bytes) ==
    IF Len(bytes) # 4
    THEN None
    ELSE Some(CodecHeader(bytes[1] + 256 * bytes[2], bytes[3], bytes[4]))

\* CodecHeader::from_base64
from_base64(encoded) ==
    IF base64_decode(encoded) = None THEN None ELSE from_bytes(unwrap(base64_decode(encoded)))

\* handle_audio_start: what it leaves in active_inbound_streams
handle_audio_start(streams, event) ==
    LET header == IF is_some(event.codec_header)
                  THEN from_base64(unwrap(event.codec_header))
                  ELSE Some(CodecHeader_default)
    IN  IF header = None
        THEN streams
        ELSE insert(streams, event.stream_id,
                    StreamInfo(event.channel, event.codec, Some(event.from)))

\* handle_audio_stop: what it leaves in active_inbound_streams
handle_audio_stop(streams, event) == remove(streams, event.stream_id)

\* handle_message: what it leaves in active_inbound_streams
handle_message(streams, m) ==
    IF m.family = "Event" /\ m.variant = "on_stream_start"
    THEN handle_audio_start(streams, m.event)
    ELSE IF m.family = "Event" /\ m.variant = "on_stream_stop"
    THEN handle_audio_stop(streams, m.event)
    ELSE streams

\* handle_message with the audio data of unknown streams left aside
handle_message_decodes_known(streams, m) ==
    /\ m.family = "Event"
    /\ m.variant = "on_stream_data"
    /\ contains_key(streams, m.event.stream_id)

\* handle_message: whether it calls handle_audio_data
handle_message_decodes(streams, m) ==
    /\ m.family = "Event"
    /\ m.variant = "on_stream_data"

\* the first byte of the payloads that Decoder::decode refuses
CorruptByte == 255

\* Decoder::decode, as far as the handler sees it: the samples, or None for Err.
\* The decoder's verdict on a packet is taken to depend on the packet alone.
opus_decode(data) ==
    IF data[1] = CorruptByte
    THEN None
    ELSE Some([i \in 1 .. Len(data) |-> data[i] * 100])

\* handle_audio_data_pcm with an empty buffer pushed for a payload that was refused
handle_audio_data_pcm_pushes_silence(data) ==
    IF data = <<>> THEN Some(<<>>)
    ELSE IF opus_decode(data) = None THEN Some(<<>>)
    ELSE opus_decode(data)

\* handle_audio_data up to try_send: the buffer to push, or None when it returns early
\* (Packet::try_from refuses an empty payload) or skips the push (decode failed)
handle_audio_data_pcm(data) ==
    IF data = <<>> THEN None ELSE opus_decode(data)

\* try_send on a queue that grows without bound
try_send_unbounded(queue, pcm) == Append(queue, pcm)

\* try_send that makes room by dropping the oldest buffer
try_send_drop_oldest(queue, pcm) ==
    IF Len(queue) < PCM_CHANNEL_CAPACITY THEN Append(queue, pcm) ELSE Append(Tail(queue), pcm)

\* Sender::try_send on the bounded channel, its Err(Full) ignored: the queue after it
try_send(queue, pcm) ==
    IF Len(queue) < PCM_CHANNEL_CAPACITY THEN Append(queue, pcm) ELSE queue

\* run_message_loop is called
run_message_loop ==
    /\ pc = "ready"
    /\ pc' = "loop"
    /\ UNCHANGED <<session, sequence, ws, sent, inbox, waited, seq, result, audio, turns, input>>

\* Protocol::receive, called by receive_message, loops past a ping or a pong
run_message_loop_continue ==
    /\ pc = "loop"
    /\ inbox # <<>>
    /\ receive_frame(Head(inbox)).ret = "Continue"
    /\ inbox' = Tail(inbox)
    /\ UNCHANGED <<pc, session, sequence, ws, sent, waited, seq, result, audio, turns, input>>

\* run_message_loop_turn with a break after an error notice or a failed Response
run_message_loop_turn_breaks_on_failure ==
    /\ pc = "loop"
    /\ \E r \in receive(waited + 1) :
        /\ consume
        /\ IF r.ret = "Panic"
           THEN /\ pc' = "panicked"
                /\ UNCHANGED <<active_inbound_streams, result, decoder, packet>>
           ELSE IF r.ret = "Some" /\ r.msg.family = "Event"
           THEN /\ active_inbound_streams' = handle_message(active_inbound_streams, r.msg)
                /\ IF handle_message_decodes(active_inbound_streams, r.msg)
                   THEN /\ decoder = "free"
                        /\ decoder' = "held"
                        /\ packet' = r.msg.event.data
                        /\ pc' = "decode"
                   ELSE UNCHANGED <<pc, decoder, packet>>
                /\ UNCHANGED result
           ELSE /\ pc' = "ready"
                /\ result' = Ok("run_message_loop", 0)
                /\ UNCHANGED <<active_inbound_streams, decoder, packet>>
    /\ UNCHANGED <<config, authenticated, refresh_token, active_streams,
                   sequence, sent, waited, seq>>
    /\ UNCHANGED <<pcm_queue, pcm_rx, buffer, output, cb, packets, turns, input>>

\* one turn of the loop: receive_message (a receive with no bound on the wait), then
\* handle_message up to the decoder.lock().await of handle_audio_data, or the break
run_message_loop_turn ==
    /\ pc = "loop"
    /\ \E r \in receive(waited + 1) :
        /\ consume
        /\ IF r.ret = "Panic"
           THEN /\ pc' = "panicked"
                /\ UNCHANGED <<active_inbound_streams, result, decoder, packet>>
           ELSE IF r.ret = "Some"
           THEN /\ active_inbound_streams' = handle_message(active_inbound_streams, r.msg)
                /\ IF handle_message_decodes(active_inbound_streams, r.msg)
                   THEN /\ decoder = "free"
                        /\ decoder' = "held"
                        /\ packet' = r.msg.event.data
                        /\ pc' = "decode"
                   ELSE UNCHANGED <<pc, decoder, packet>>
                /\ UNCHANGED result
           ELSE /\ pc' = "ready"
                /\ result' = Ok("run_message_loop", 0)
                /\ UNCHANGED <<active_inbound_streams, decoder, packet>>
    /\ UNCHANGED <<config, authenticated, refresh_token, active_streams,
                   sequence, sent, waited, seq>>
    /\ UNCHANGED <<pcm_queue, pcm_rx, buffer, output, cb, packets, turns, input>>

\* handle_audio_data with the guard dropped only after a push
handle_audio_data_keeps_lock_on_return ==
    /\ pc = "decode"
    /\ pcm_queue' = IF handle_audio_data_pcm(packet) = None
                    THEN pcm_queue
                    ELSE try_send(pcm_queue, unwrap(handle_audio_data_pcm(packet)))
    /\ decoder' = IF handle_audio_data_pcm(packet) = None THEN decoder ELSE "free"
    /\ packet' = <<>>
    /\ pc' = "loop"
    /\ UNCHANGED <<session, sequence, ws, sent, inbox, waited, seq, result>>
    /\ UNCHANGED <<pcm_rx, buffer, output, cb, packets, turns, input>>

\* handle_audio_data with the decoder locked: parse, decode, try_send; the guard is
\* dropped on return
handle_audio_data ==
    /\ pc = "decode"
    /\ pcm_queue' = IF handle_audio_data_pcm(packet) = None
                    THEN pcm_queue
                    ELSE try_send(pcm_queue, unwrap(handle_audio_data_pcm(packet)))
    /\ decoder' = "free"
    /\ packet' = <<>>
    /\ pc' = "loop"
    /\ UNCHANGED <<session, sequence, ws, sent, inbox, waited, seq, result>>
    /\ UNCHANGED <<pcm_rx, buffer, output, cb, packets, turns, input>>

(***************************************************************************)
(* The playback callback: process_audio_output, called by the audio        *)
(* subsystem on its own thread.  An f32 sample is held in units of         *)
(* PCM_I16_TO_F32 (1/32768), which every i16 maps to exactly.              *)
(***************************************************************************)
\* f32::from(sample) * PCM_I16_TO_F32, in those units
f32_from_i16(sample) == sample

\* the lengths of the slices the audio subsystem asks for
OutputSizes == {1, 3}

\* the output slice of a callback: its length and, once written, its samples
Output(len, samples) == [len |-> len, samples |-> samples]

\* process_audio_output_begin with the decoder locked for the length of the callback
process_audio_output_begin_locks_decoder ==
    /\ cb = "idle"
    /\ decoder = "free"
    /\ \E len \in OutputSizes : output' = Output(len, <<>>)
    /\ IF pcm_rx = "free"
       THEN /\ pcm_rx' = "held"
            /\ cb' = "drain"
       ELSE /\ cb' = "fill"
            /\ UNCHANGED pcm_rx
    /\ UNCHANGED <<pc, session, sequence, ws, sent, inbox, waited, seq, result>>
    /\ UNCHANGED <<pcm_queue, decoder, packet, buffer, packets, turns, input>>

\* the callback is invoked: pcm_rx.try_lock()
process_audio_output_begin ==
    /\ cb = "idle"
    /\ \E len \in OutputSizes : output' = Output(len, <<>>)
    /\ IF pcm_rx = "free"
       THEN /\ pcm_rx' = "held"
            /\ cb' = "drain"
       ELSE /\ cb' = "fill"
            /\ UNCHANGED pcm_rx
    /\ UNCHANGED <<pc, session, sequence, ws, sent, inbox, waited, seq, result>>
    /\ UNCHANGED <<pcm_queue, decoder, packet, buffer, packets, turns, input>>

\* process_audio_output_recv with the samples of a buffer put in front of the accumulator
process_audio_output_recv_newest_first ==
    /\ cb = "drain"
    /\ IF pcm_queue # <<>>
       THEN /\ pcm_queue' = Tail(pcm_queue)
            /\ buffer' = [i \in 1 .. Len(Head(pcm_queue)) |->
                              f32_from_i16(Head(pcm_queue)[i])] \o buffer
            /\ UNCHANGED <<pcm_rx, cb>>
       ELSE /\ pcm_rx' = "free"
            /\ cb' = "fill"
            /\ UNCHANGED <<pcm_queue, buffer>>
    /\ UNCHANGED <<pc, session, sequence, ws, sent, inbox, waited, seq, result>>
    /\ UNCHANGED <<decoder, packet, output, packets, turns, input>>

\* one turn of `while let Ok(pcm) = rx.try_recv()`: a buffer is moved to the
\* accumulator, or the queue is empty and the guard is dropped
process_audio_output_recv ==
    /\ cb = "drain"
    /\ IF pcm_queue # <<>>
       THEN /\ pcm_queue' = Tail(pcm_queue)
            /\ buffer' = buffer \o [i \in 1 .. Len(Head(pcm_queue)) |->
                                       f32_from_i16(Head(pcm_queue)[i])]
            /\ UNCHANGED <<pcm_rx, cb>>
       ELSE /\ pcm_rx' = "free"
            /\ cb' = "fill"
            /\ UNCHANGED <<pcm_queue, buffer>>
    /\ UNCHANGED <<pc, session, sequence, ws, sent, inbox, waited, seq, result>>
    /\ UNCHANGED <<decoder, packet, output, packets, turns, input>>

\* process_audio_output_fill with the places that no sample is there for left unwritten
process_audio_output_fill_leaves_gaps ==
    /\ cb = "fill"
    /\ output' = Output(output.len,
                        [i \in 1 .. (IF Len(buffer) < output.len THEN Len(buffer) ELSE output.len) |->
                            buffer[i]])
    /\ buffer' = SubSeq(buffer, output.len + 1, Len(buffer))
    /\ cb' = "idle"
    /\ UNCHANGED <<pc, session, sequence, ws, sent, inbox, waited, seq, result>>
    /\ UNCHANGED <<pcm_queue, pcm_rx, decoder, packet, packets, turns, input>>

\* `*out = buffer.pop_front().unwrap_or(0.0)` for every place of the slice
process_audio_output_fill ==
    /\ cb = "fill"
    /\ output' = Output(output.len,
                        [i \in 1 .. output.len |-> IF i <= Len(buffer) THEN buffer[i] ELSE 0])
    /\ buffer' = SubSeq(buffer, output.len + 1, Len(buffer))
    /\ cb' = "idle"
    /\ UNCHANGED <<pc, session, sequence, ws, sent, inbox, waited, seq, result>>
    /\ UNCHANGED <<pcm_queue, pcm_rx, decoder, packet, packets, turns, input>>

(***************************************************************************)
(* The peer during the message loop, and the specifications of the loop.   *)
(***************************************************************************)
\* the bytes of a u32, big-endian
put_u32(x) == <<hi16(x) \div 256, hi16(x) % 256, lo16(x) \div 256, lo16(x) % 256>>

\* an inbound binary frame: a type byte, the stream id, the packet id, the payload
AudioFrame(stream_id, packet_id, payload) ==
    Binary(<<1>> \o put_u32(stream_id) \o put_u32(packet_id) \o payload)
AudioStart(stream_id, codec_header) ==
    Text(EventJson("on_stream_start",
                   EventFields(stream_id, "dummy", "opus", "alice", codec_header, 0, <<>>)))
AudioStop(stream_id) ==
    Text(EventJson("on_stream_stop", EventFields(stream_id, "", "", "", None, 0, <<>>)))

\* the codec headers of the model: none, a good one, one of three bytes, not base64
CodecHeaders == {None, Some("gD4BPA=="), Some("gD4B"), Some("!")}

\* the frames the peer may send next while the handlers are explored: packet n of a
\* stream carries payload <<n>>, or an empty or a corrupt one
LoopFrames ==
    {AudioStart(id, h) : id \in InboundIds, h \in CodecHeaders}
    \cup {AudioStop(id) : id \in InboundIds}
    \cup {ChannelStatus, ErrorNotice, GenericFailed(2, None), Ping, Close, TransportError}
    \cup (IF packets < MaxPackets
          THEN {AudioFrame(id, packets + 1, payload) :
                   id \in InboundIds, payload \in {<<>>, <<CorruptByte>>, <<packets + 1>>}}
          ELSE {})

\* the frames the peer may send next while the sample queue is explored
QueueFrames ==
    IF packets < PCM_CHANNEL_CAPACITY + MaxOverflow
    THEN {AudioFrame(id, packets + 1, <<packets + 1>>) : id \in InboundIds}
    ELSE {}

\* the peer sends a frame of `frames` while the loop runs; the loop reads the frames
\* one by one, so each is sent when the one before was read
loop_deliver(frames) ==
    /\ pc = "loop"
    /\ ws = "open"
    /\ inbox = <<>>
    /\ \E f \in frames :
        /\ inbox' = <<f>>
        /\ packets' = IF f.kind = "binary" THEN packets + 1 ELSE packets
    /\ UNCHANGED <<pc, session, sequence, ws, sent, waited, seq, result>>
    /\ UNCHANGED <<pcm_queue, pcm_rx, decoder, packet, buffer, output, cb, turns, input>>

LoopServer == loop_deliver(LoopFrames)
QueueServer == loop_deliver(QueueFrames)

\* the state in which new returns a client
SessionInit ==
    /\ pc = "ready"
    /\ config = [username |-> Some("dummy"), password |-> Some("dummy"),
                 auth_token |-> Some("dummy"), channel |-> "dummy"]
    /\ authenticated = TRUE
    /\ refresh_token = "rt"
    /\ active_streams = EmptyMap
    /\ active_inbound_streams = EmptyMap
    /\ sequence = 2
    /\ ws = "open"
    /\ sent = <<logon(1)>>
    /\ inbox = <<>>
    /\ waited = 0
    /\ seq = 1
    /\ result = Ok("new", 0)
    /\ pcm_queue = <<>>
    /\ pcm_rx = "free"
    /\ decoder = "free"
    /\ packet = <<>>
    /\ buffer = <<>>
    /\ output = Output(0, <<>>)
    /\ cb = "idle"
    /\ packets = 0
    /\ turns = 0
    /\ input = NoInput

\* the message loop and the handlers
LoopNext ==
    \/ run_message_loop
    \/ run_message_loop_continue
    \/ run_message_loop_turn
    \/ handle_audio_data
    \/ LoopServer

LoopSpec == SessionInit /\ [][LoopNext]_vars

\* the decode path and the playback callback around the sample queue
QueueNext ==
    \/ run_message_loop
    \/ run_message_loop_turn
    \/ handle_audio_data
    \/ QueueServer
    \/ process_audio_output_begin
    \/ process_audio_output_recv
    \/ process_audio_output_fill

QueueSpec == SessionInit /\ [][QueueNext]_vars

\* the same, with the audio thread running: a callback that can take a step takes it
PlaybackSpec ==
    /\ SessionInit
    /\ [][QueueNext]_vars
    /\ WF_vars(process_audio_output_recv)
    /\ WF_vars(process_audio_output_fill)

\* the frames the peer may send next while the decoder lock is explored: packet n
\* carries payload <<n>>, or an empty or a corrupt one
DecoderFrames ==
    IF packets < MaxPackets
    THEN {AudioFrame(id, packets + 1, payload) :
             id \in InboundIds, payload \in {<<>>, <<CorruptByte>>, <<packets + 1>>}}
    ELSE {}

\* the decode path on every kind of payload, and the playback callback
DecoderNext ==
    \/ run_message_loop
    \/ run_message_loop_turn
    \/ handle_audio_data
    \/ loop_deliver(DecoderFrames)
    \/ process_audio_output_begin
    \/ process_audio_output_recv
    \/ process_audio_output_fill

DecoderSpec == SessionInit /\ [][DecoderNext]_vars

(***************************************************************************)
(* The accumulator of the playback callback at the sizes of the program:   *)
(* a burst of audio packets, then the callback.                            *)
(***************************************************************************)
\* lib.rs: the capacity the accumulator is created with (VecDeque::with_capacity)
CPAL_VECTOR_QUEUE_CAPACITY == 8192

\* the samples of a packet of the default codec header: 60 ms at 16000 Hz, one channel
SamplesPerPacket ==
    (CodecHeader_default.sample_rate_hz * CodecHeader_default.frame_size_ms
         * CodecHeader_default.frames_per_packet) \div 1000

\* the frames of the burst: each packet decodes to SamplesPerPacket samples
BurstFrames ==
    IF packets < MaxBurst
    THEN {AudioFrame(id, packets + 1, [i \in 1 .. SamplesPerPacket |-> 1]) : id \in InboundIds}
    ELSE {}

\* the audio subsystem invokes the callback while the accumulator is empty: the
\* callbacks explored are those that start from an empty accumulator
process_audio_output_begin_on_empty ==
    /\ buffer = <<>>
    /\ process_audio_output_begin

AccumulatorNext ==
    \/ run_message_loop
    \/ run_message_loop_turn
    \/ handle_audio_data
    \/ loop_deliver(BurstFrames)
    \/ process_audio_output_begin_on_empty
    \/ process_audio_output_recv
    \/ process_audio_output_fill

AccumulatorSpec == SessionInit /\ [][AccumulatorNext]_vars

(***************************************************************************)
(* One text frame, of every shape, read by Protocol::receive called on its *)
(* own or by the message loop of a session.                                *)
(***************************************************************************)
\* the JSON objects explored: each field the decoder looks at, present or absent
TextJsons ==
    {Json(command, seq_, success, refresh_token_, error, rest) :
        command \in {"", "on_error", "on_stream_start", "bogus"},
        seq_ \in {None, Some(2)},
        success \in {None, Some(TRUE), Some(FALSE)},
        refresh_token_ \in {None, Some("rt")},
        error \in {None, Some("kicked")},
        rest \in BOOLEAN}

\* a client that new returned, about to call receive or inside run_message_loop, and
\* a text frame that arrived
TextInit ==
    /\ pc \in {"protocol", "loop"}
    /\ inbox \in {<<Text(j)>> : j \in TextJsons}
    /\ config = [username |-> Some("dummy"), password |-> Some("dummy"),
                 auth_token |-> Some("dummy"), channel |-> "dummy"]
    /\ authenticated = TRUE
    /\ refresh_token = "rt"
    /\ active_streams = EmptyMap
    /\ active_inbound_streams = EmptyMap
    /\ sequence = 2
    /\ ws = "open"
    /\ sent = <<logon(1)>>
    /\ waited = 0
    /\ seq = 1
    /\ result = Ok("new", 0)
    /\ pcm_queue = <<>>
    /\ pcm_rx = "free"
    /\ decoder = "free"
    /\ packet = <<>>
    /\ buffer = <<>>
    /\ output = Output(0, <<>>)
    /\ cb = "idle"
    /\ packets = 0
    /\ turns = 0
    /\ input = NoInput

TextNext ==
    \/ Protocol_receive
    \/ run_message_loop_turn

TextSpec == TextInit /\ [][TextNext]_vars

(***************************************************************************)
(* A session that has issued requests up to the 32-bit boundary of the     *)
(* sequence counter.                                                       *)
(***************************************************************************)
\* the counter of a session that is MaxSeq requests or fewer from u32::MAX
WrapSequences == {U32Max - k : k \in 0 .. MaxSeq}

\* the state of a client that new returned and that has sent text messages since:
\* `sent` holds the frames written from here on
WrapInit ==
    /\ pc = "ready"
    /\ config = [username |-> Some("dummy"), password |-> Some("dummy"),
                 auth_token |-> Some("dummy"), channel |-> "dummy"]
    /\ authenticated = TRUE
    /\ refresh_token = "rt"
    /\ active_streams = EmptyMap
    /\ active_inbound_streams = EmptyMap
    /\ sequence \in WrapSequences
    /\ ws = "open"
    /\ sent = <<>>
    /\ inbox = <<>>
    /\ waited = 0
    /\ seq = 0
    /\ result = Ok("send_text_message", 0)
    /\ pcm_queue = <<>>
    /\ pcm_rx = "free"
    /\ decoder = "free"
    /\ packet = <<>>
    /\ buffer = <<>>
    /\ output = Output(0, <<>>)
    /\ cb = "idle"
    /\ packets = 0
    /\ turns = 0
    /\ input = NoInput

\* the frames the server and the network produce around the boundary: the responses
\* carry the sequence numbers of the requests sent there
WrapFrames ==
    {GenericOk(s_) : s_ \in {U32Max, 0, 1}}
    \cup {GenericFailed(s_, None) : s_ \in {U32Max, 0, 1}}
    \cup {ChannelStatus, Ping, Close}

WrapNext ==
    \/ send_text_message
    \/ start_audio_stream_send
    \/ start_audio_stream
    \/ receive_continue
    \/ Tick
    \/ deliver(WrapFrames)

WrapSpec == WrapInit /\ [][WrapNext]_vars

(***************************************************************************)
(* A request from next_seq to send, as the operations of ZelloClient make  *)
(* one: next_seq, a constructor of Message, then Protocol::send; the       *)
(* caller reads Message::seq in between.                                   *)
(***************************************************************************)
\* Message::seq with None for a StopStream
Message_seq_none_for_stop(message) ==
    IF message.variant = "StopStream" THEN None ELSE Some(message.seq)

\* Message::seq: every arm of the match is Some(*seq)
Message_seq(message) == Some(message.seq)

\* the requests a caller can build around a sequence number
Requests(seq_) ==
    {Message_logon_password(seq_, "dummy", "dummy", "dummy", "dummy"),
     Message_logon_token(seq_, "dummy", "dummy"),
     Message_send_text(seq_, "dummy", "Hello"),
     Message_send_text_for_callsign(seq_, "dummy", "Hello", "alice"),
     Message_start_stream(seq_, "dummy", "opus", 60),
     Message_stop_stream(seq_, 2)}

\* a request in the hands of a caller
Request(message) == [type |-> "request", message |-> message]

\* a connected Protocol: new, or with its counter at the end of 31 or of 32 bits
RequestInit == ProtocolInit /\ sequence \in {InitialSequence, I32Max, U32Max}

\* let seq = self.protocol.next_seq(), once the request before was sent
Request_next_seq ==
    /\ result.op \in {"", "send"}
    /\ next_seq

\* let message = Message::logon(seq, ..) and the like, on the seq just returned
Message_construct ==
    /\ pc = "protocol"
    /\ result.op = "next_seq"
    /\ \E message \in Requests(seq) : input' = Request(message)
    /\ result' = Ok("Message", 0)
    /\ UNCHANGED <<pc, session, sequence, ws, sent, inbox, waited, seq, audio, turns>>

\* message.seq()
Message_seq_call ==
    /\ pc = "protocol"
    /\ result.op = "Message"
    /\ result' = Ok("seq", Message_seq(input.message))
    /\ UNCHANGED <<pc, session, sequence, ws, sent, inbox, waited, seq, audio, turns, input>>

\* self.protocol.send(message)
Request_send ==
    /\ result.op = "seq"
    /\ Protocol_send(input.message)

RequestNext ==
    \/ Request_next_seq
    \/ Message_construct
    \/ Message_seq_call
    \/ Request_send

RequestSpec == RequestInit /\ [][RequestNext]_vars

(***************************************************************************)
(* A session whose owner starts streams and runs the message loop while    *)
(* the peer sends events.                                                  *)
(***************************************************************************)
\* the frames of the peer: the events of an inbound stream, a channel status, the
\* responses to a start_stream, and the end of the connection
EventFrames ==
    {AudioStart(id, h) : id \in InboundIds, h \in {None, Some("gD4BPA==")}}
    \cup {AudioStop(id) : id \in InboundIds}
    \cup {GenericOk(s_) : s_ \in 2 .. MaxSeq}
    \cup {ChannelStatus, Close}

EventNext ==
    \/ start_audio_stream_send
    \/ start_audio_stream
    \/ Tick
    \/ deliver(EventFrames)
    \/ run_message_loop
    \/ run_message_loop_turn
    \/ loop_deliver(EventFrames)

EventSpec == SessionInit /\ [][EventNext]_vars

(***************************************************************************)
(* CodecHeader::to_bytes and CodecHeader::from_bytes called on their own.  *)
(***************************************************************************)
\* to_bytes with the sample rate written most significant byte first (put_u16)
to_bytes_big_endian(header) ==
    <<header.sample_rate_hz \div 256, header.sample_rate_hz % 256,
      header.frames_per_packet, header.frame_size_ms>>

\* CodecHeader::to_bytes: put_u16_le, put_u8, put_u8
to_bytes(header) ==
    <<header.sample_rate_hz % 256, header.sample_rate_hz \div 256,
      header.frames_per_packet, header.frame_size_ms>>

\* the headers explored: a u16 and two u8, at their ends and in between
Headers ==
    {CodecHeader(r, f, d) : r \in {0, 255, 256, 16000, 65535}, f \in {0, 1, 255}, d \in {0, 60, 255}}

\* the byte buffers explored: every buffer of up to MaxBytes bytes over two byte
\* values, and the header of the protocol's documentation
ByteBuffers ==
    UNION {[1 .. n -> {1, 255}] : n \in 0 .. MaxBytes} \cup {<<128, 62, 1, 60>>}

\* a header or a byte buffer in the hands of a caller
CodecInit ==
    /\ pc = "codec"
    /\ input \in {Input("header", h, <<>>) : h \in Headers}
                 \cup {Input("bytes", NoInput.header, b) : b \in ByteBuffers}
    /\ config = NoConfig
    /\ authenticated = FALSE
    /\ refresh_token = ""
    /\ active_streams = EmptyMap
    /\ active_inbound_streams = EmptyMap
    /\ sequence = 0
    /\ ws = "none"
    /\ sent = <<>>
    /\ inbox = <<>>
    /\ waited = 0
    /\ seq = 0
    /\ result = NoResult
    /\ pcm_queue = <<>>
    /\ pcm_rx = "free"
    /\ decoder = "free"
    /\ packet = <<>>
    /\ buffer = <<>>
    /\ output = Output(0, <<>>)
    /\ cb = "idle"
    /\ packets = 0
    /\ turns = 0

\* header.to_bytes() on the header in hand
CodecHeader_to_bytes ==
    /\ pc = "codec"
    /\ input.type = "header"
    /\ result' = Ok("to_bytes", to_bytes(input.header))
    /\ UNCHANGED <<pc, session, sequence, ws, sent, inbox, waited, seq, audio, turns, input>>

\* CodecHeader::from_bytes(bytes)
CodecHeader_from_bytes(bytes) ==
    /\ pc = "codec"
    /\ result' = IF from_bytes(bytes) = None
                 THEN Err("from_bytes", "anyhow", "Invalid codec header length")
                 ELSE Ok("from_bytes", unwrap(from_bytes(bytes)))
    /\ UNCHANGED <<pc, session, sequence, ws, sent, inbox, waited, seq, audio, turns, input>>

\* from_bytes on the buffer in hand, or on the bytes that to_bytes just returned
CodecNext ==
    \/ CodecHeader_to_bytes
    \/ (input.type = "bytes" /\ CodecHeader_from_bytes(input.bytes))
    \/ (result.op = "to_bytes" /\ CodecHeader_from_bytes(result.val))

CodecSpec == CodecInit /\ [][CodecNext]_vars

(***************************************************************************)
(* Properties.                                                             *)
(***************************************************************************)
\* new has returned a client and it was not closed
ClientReturned == pc \in {"ready", "start_wait"}

\* the step in which authenticate returns
AuthenticateReturns == pc = "auth_wait" /\ pc' # "auth_wait"

\* C1: session construction reaches Authenticated only on receiving a Response whose
\* sequence number is the logon request's and whose success indicator is true, and the
\* session's refresh token is then the one of that Response.
C1_AuthenticatedOnlyByCorrelatedResponse ==
    [][(pc = "auth_wait" /\ pc' = "ready") =>
          \E r \in receive(LogonTimeout) :
              /\ r.ret = "Some"
              /\ r.msg.family = "Response"
              /\ r.msg.seq = seq
              /\ r.msg.success
              /\ authenticated'
              /\ refresh_token' = r.msg.refresh_token]_vars

\* C2: when the message received in reply to the logon request is a Response with
\* success = false and error text e, construction fails with AuthenticationError whose
\* message is exactly e.
C2_FailedLogonIsAuthenticationError ==
    [][AuthenticateReturns =>
          \A r \in receive(LogonTimeout) :
              (r.ret = "Some" /\ r.msg.family = "Response" /\ ~r.msg.success /\ is_some(r.msg.error))
              => (pc' = "failed" /\ result' = Err("new", "AuthenticationError", unwrap(r.msg.error)))]_vars

C4_ClientOnlyWhenAuthenticated ==
    /\ ClientReturned => authenticated
    /\ (result.op = "new" /\ result.status = "Err") => (pc = "failed" /\ ~authenticated)
    /\ pc = "failed" => (result.op = "new" /\ result.status = "Err")

\* a client that has lived through a started and stopped stream
C4_Witness ==
    /\ pc = "ready"
    /\ authenticated
    /\ result = Ok("stop_audio_stream", 0)

\* the step in which start_audio_stream returns from its bounded receive
StartAudioStreamReturns == pc = "start_wait" /\ pc' = "ready"

\* frame f is an inbound message other than the Response to request `seq`
OtherMessage(f) ==
    /\ f.kind = "text"
    /\ decode_text(f.json).family \in {"Response", "Error", "Event"}
    /\ decode_text(f.json).family = "Response" => decode_text(f.json).seq # seq

\* the frame at place i of inbox is f, and only other messages are before it
DeliveredAfterOthers(f, i) ==
    /\ i \in 1 .. Len(inbox)
    /\ inbox[i] = f
    /\ \A j \in 1 .. (i - 1) : OtherMessage(inbox[j])

\* C6: a stream id k is in the outbound map only if a Response with sequence number k
\* and success = true was received in reply to a StartStream request sent with
\* sequence number k, and no stop for k has been sent since.
C6_RecordedOnlyByCorrelatedResponse ==
    /\ [][\A k \in (DOMAIN active_streams') \ (DOMAIN active_streams) :
            /\ \E i \in DOMAIN sent : sent[i] = start_stream(k)
            /\ \E r \in receive(StartStreamTimeout) :
                   /\ r.ret = "Some"
                   /\ r.msg.family = "Response"
                   /\ r.msg.seq = k
                   /\ r.msg.success]_vars
    /\ [](\A k \in DOMAIN active_streams :
            ~\E i \in DOMAIN sent : sent[i].command = "stop_stream" /\ sent[i].stream_id = k)

\* C7: start_audio_stream waits for the Response correlated to its own request: when
\* that Response has success = true and is delivered within the wait, the call succeeds
\* and records the stream under the request's sequence number, whatever other inbound
\* messages are delivered before it.
C7_WaitsForOwnResponse ==
    [][(StartAudioStreamReturns
        /\ \E i \in 1 .. Len(inbox) : DeliveredAfterOthers(GenericOk(seq), i))
       => (result' = Ok("start_audio_stream", seq) /\ contains_key(active_streams', seq))]_vars

\* a step of a call of start_audio_stream, and the step in which the call succeeds
StartAudioStreamStep ==
    \/ pc = "start_wait"
    \/ pc' = "start_wait"
    \/ (result' # result /\ result'.op = "start_audio_stream")
StartAudioStreamSucceeds == StartAudioStreamReturns /\ result'.status = "Ok"

\* C8: when start_audio_stream fails (a Response with success = false, a non-Response
\* message, a timeout or a transport error), the outbound map is as it was before the
\* call: no step of the call but its successful return changes the map.
C8_FailedStartLeavesMap ==
    [][(StartAudioStreamStep /\ ~StartAudioStreamSucceeds)
       => (active_streams' = active_streams
           /\ (pc = "start_wait" /\ pc' # "start_wait" => result'.status = "Err"))]_vars

\* a start that the server refused, on a session with a stream started before
C8_Witness ==
    /\ pc = "ready"
    /\ result = Err("start_audio_stream", "AudioError", "Failed to start stream")
    /\ DOMAIN active_streams = {2}
    /\ sequence = 4

\* what the Response f to the request `seq` dictates for start_audio_stream
Dictated(f) ==
    IF f = GenericOk(seq)
    THEN Ok("start_audio_stream", seq)
    ELSE Err("start_audio_stream", "AudioError", "Failed to start stream")

\* C9: the expiry of start_audio_stream's bounded wait yields Timeout and ends only that
\* call (the connection stays open, the session authenticated), and a later
\* start_audio_stream on the session gets the outcome its own Response dictates.
C9_TimeoutEndsOnlyThatCall ==
    /\ [][(pc = "start_wait" /\ pc' # "start_wait" /\ receive(StartStreamTimeout) = {receive_elapsed})
          => (/\ result' = Err("start_audio_stream", "Timeout", "")
              /\ pc' = "ready"
              /\ waited = StartStreamTimeout
              /\ UNCHANGED <<ws, session, sequence, sent, inbox>>)]_vars
    /\ [][(StartAudioStreamReturns
           /\ result = Err("start_audio_stream", "Timeout", ""))
          => \A f \in {GenericOk(seq), GenericFailed(seq, None)} :
                (\E i \in 1 .. Len(inbox) : DeliveredAfterOthers(f, i)) => result' = Dictated(f)]_vars

\* the call send_audio_packet(id, _) or stop_audio_stream(id)
StreamCall(id) ==
    \/ \E data \in AudioPayloads : send_audio_packet(id, data)
    \/ stop_audio_stream(id)

\* C10: send_audio_packet(id, data) and stop_audio_stream(id) with id absent from the
\* outbound map fail with AudioError, write no frame, and leave the sequence counter
\* and both stream maps unchanged, also when other streams are started.
C10_UnknownStreamIsAudioError ==
    [][\A id \in StreamIds :
          (StreamCall(id) /\ ~contains_key(active_streams, id))
          => (/\ result'.status = "Err"
              /\ result'.err = "AudioError"
              /\ result'.op \in {"send_audio_packet", "stop_audio_stream"}
              /\ UNCHANGED <<sent, sequence, active_streams, active_inbound_streams>>)]_vars

\* a call on the never-started id refused while another stream is started
C10_Witness ==
    /\ pc = "ready"
    /\ result = Err("send_audio_packet", "AudioError", "Invalid stream ID")
    /\ DOMAIN active_streams = {2}
    /\ DOMAIN active_inbound_streams # {}
    /\ sent = <<logon(1), start_stream(2)>>

\* the last frame written is the stop of stream id, by the call that just returned
JustStopped(id) ==
    /\ result = Ok("stop_audio_stream", 0)
    /\ sent # <<>>
    /\ sent[Len(sent)].command = "stop_stream"
    /\ sent[Len(sent)].stream_id = id

\* C11: stop_audio_stream(id) on a recorded stream writes one StopStream request and
\* removes id from the outbound map in the same call, without a wait for a Response;
\* a following stop_audio_stream(id) or send_audio_packet(id, _) fails with AudioError.
C11_StopRemovesWithoutWaiting ==
    /\ [][\A id \in StreamIds :
            (stop_audio_stream(id) /\ contains_key(active_streams, id) /\ can_send)
            => (/\ sent' = Append(sent, stop_stream(sequence, id))
                /\ active_streams' = remove(active_streams, id)
                /\ ~contains_key(active_streams', id)
                /\ result' = Ok("stop_audio_stream", 0)
                /\ pc' = "ready"
                /\ UNCHANGED <<inbox, waited>>)]_vars
    /\ [][\A id \in StreamIds :
            (JustStopped(id) /\ StreamCall(id))
            => (/\ result'.status = "Err"
                /\ result'.err = "AudioError"
                /\ UNCHANGED <<sent, active_streams>>)]_vars

\* the second stop of a stream that was started and stopped
C11_Witness ==
    /\ pc = "ready"
    /\ result = Err("stop_audio_stream", "AudioError", "Invalid stream ID")
    /\ sent = <<logon(1), start_stream(2), stop_stream(3, 2)>>
    /\ active_streams = EmptyMap

\* C12: the sequence counter is 1 after connect; next_seq returns the current value of
\* the counter and advances it by one, and at the 32-bit maximum the counter becomes 0.
C12_SequenceStartsAtOneAndWraps ==
    /\ [][(connect /\ result'.status = "Ok") => sequence' = 1]_vars
    /\ [][next_seq =>
            /\ seq' = sequence
            /\ IF lo16(sequence) = 65535 /\ hi16(sequence) = 65535
               THEN sequence' = 0
               ELSE IF lo16(sequence) = 65535
               THEN lo16(sequence') = 0 /\ hi16(sequence') = hi16(sequence) + 1
               ELSE lo16(sequence') = lo16(sequence) + 1 /\ hi16(sequence') = hi16(sequence)]_vars

\* next_seq returned u32::MAX and the counter is 0
C12_Witness ==
    /\ pc = "protocol"
    /\ lo16(seq) = 65535
    /\ hi16(seq) = 65535
    /\ sequence = 0
    /\ result = Ok("next_seq", 0)

\* the sequence numbers of the text frames written, in write order
sent_seqs == [i \in 1 .. Len(SelectSeq(sent, LAMBDA f : f.kind = "text")) |->
                 SelectSeq(sent, LAMBDA f : f.kind = "text")[i].seq]

Handled == receive_frame(Head(inbox)).msg
\* this step is a turn of the loop that hands an event `variant` to handle_message
HandlesEvent(variant) ==
    /\ pc = "loop"
    /\ inbox # <<>>
    /\ inbox' = Tail(inbox)
    /\ receive_frame(Head(inbox)).ret = "Some"
    /\ Handled.family = "Event"
    /\ Handled.variant = variant

\* C14: after an AudioStart event with stream id s is handled, s is in the inbound map
\* with the event's channel, codec and sender; an entry leaves the map only when an
\* AudioStop event for its id is handled, and after that event the id is absent.
C14_InboundMapFollowsStartAndStop ==
    /\ [][HandlesEvent("on_stream_start")
          => (/\ contains_key(active_inbound_streams', Handled.event.stream_id)
              /\ active_inbound_streams'[Handled.event.stream_id] =
                     StreamInfo(Handled.event.channel, Handled.event.codec,
                                Some(Handled.event.from)))]_vars
    /\ [][\A s \in DOMAIN active_inbound_streams :
            ~contains_key(active_inbound_streams', s)
            => (HandlesEvent("on_stream_stop") /\ Handled.event.stream_id = s)]_vars
    /\ [][HandlesEvent("on_stream_stop")
          => ~contains_key(active_inbound_streams', Handled.event.stream_id)]_vars

\* C15: remove_inbound_stream on an id that is not in the inbound map returns an error.
C15_UnknownInboundIsError ==
    [][\A id \in InboundIds :
          (remove_inbound_stream(id) /\ ~contains_key(active_inbound_streams, id))
          => result'.status = "Err"]_vars

\* this step is the decode step of handle_audio_data
DecodeStep == pc = "decode" /\ pc' # "decode"

\* C16: every AudioData event handled by the loop goes to the decode step with its
\* payload, whether or not its stream id is in the inbound map, and neither handling it
\* nor decoding it changes a stream map.
C16_AudioDataAlwaysDecoded ==
    /\ [][HandlesEvent("on_stream_data")
          => (/\ pc' = "decode"
              /\ packet' = Handled.event.data
              /\ UNCHANGED <<active_streams, active_inbound_streams>>)]_vars
    /\ [][DecodeStep
          => (pc' = "loop" /\ UNCHANGED <<active_streams, active_inbound_streams>>)]_vars

\* the packet of a stream that no AudioStart announced is at the decode step
C16_Witness ==
    /\ pc = "decode"
    /\ packet = <<1>>
    /\ active_inbound_streams = EmptyMap

\* a payload that parses and decodes
WellFormed(data) == data # <<>> /\ data[1] # CorruptByte

\* C17: a payload that cannot be parsed or decoded pushes nothing to the sample queue,
\* returns no error and leaves the loop running, and a well-formed packet, also one
\* that follows it, is decoded and its samples are pushed when the queue has room.
C17_BadPayloadIsSkipped ==
    /\ [][(DecodeStep /\ ~WellFormed(packet))
          => (/\ pcm_queue' = pcm_queue
              /\ pc' = "loop"
              /\ decoder' = "free"
              /\ UNCHANGED <<result, ws, session>>)]_vars
    /\ [][(DecodeStep /\ WellFormed(packet) /\ Len(pcm_queue) < PCM_CHANNEL_CAPACITY)
          => (/\ pcm_queue' = Append(pcm_queue, [i \in 1 .. Len(packet) |-> packet[i] * 100])
              /\ pc' = "loop")]_vars

\* the first packet was empty, the second corrupt, and the third one was pushed
C17_Witness ==
    /\ pc = "loop"
    /\ packets = 3
    /\ inbox = <<>>
    /\ pcm_queue = << <<300>> >>
    /\ contains_key(active_inbound_streams, 7)

\* C18: the sample queue never holds more than PCM_CHANNEL_CAPACITY = 20 buffers, and a
\* decode step that is about to push can always take its step.
C18_QueueIsBounded ==
    /\ Len(pcm_queue) <= 20
    /\ pc = "decode" => ENABLED handle_audio_data

\* the queue is full while a decode step is about to push
C18_Witness ==
    /\ Len(pcm_queue) = PCM_CHANNEL_CAPACITY
    /\ pc = "decode"
    /\ WellFormed(packet)

\* C19: a push to a full sample queue discards the buffer being pushed: the buffers
\* queued and their order stay as they were, and the decode step ends without error.
C19_FullQueueDropsNewest ==
    [][(DecodeStep /\ Len(pcm_queue) = PCM_CHANNEL_CAPACITY)
       => (/\ pcm_queue' = pcm_queue
           /\ pc' = "loop"
           /\ decoder' = "free"
           /\ UNCHANGED result)]_vars

\* twenty packets are queued and the twenty-first was decoded and dropped
C19_Witness ==
    /\ pc = "loop"
    /\ inbox = <<>>
    /\ packets = PCM_CHANNEL_CAPACITY + 1
    /\ pcm_queue = [i \in 1 .. PCM_CHANNEL_CAPACITY |-> <<i * 100>>]

\* the step of the callback that its position calls for can be taken
CallbackCanStep ==
    /\ cb = "idle" => ENABLED process_audio_output_begin
    /\ cb = "drain" => ENABLED process_audio_output_recv
    /\ cb = "fill" => ENABLED process_audio_output_fill

\* C20: the playback callback never blocks: in every state, whatever the decode side
\* holds, its next step can be taken, and every invocation reaches its end.
C20_CallbackNeverBlocks ==
    /\ []CallbackCanStep
    /\ (cb # "idle") ~> (cb = "idle")

\* a callback is draining the queue while the decode step holds the decoder
C20_Witness ==
    /\ cb = "drain"
    /\ decoder = "held"
    /\ pcm_queue # <<>>
    /\ buffer # <<>>

\* the steps of a playback callback: the drain loop finds the queue empty, and the fill
DrainEnds == cb = "drain" /\ cb' = "fill"
FillStep == cb = "fill" /\ cb' = "idle"

\* C21: a playback callback that finds the sample queue empty while its accumulator is
\* empty writes a zero to each of the N places of the slice it was asked to fill, and
\* returns with the accumulator and the queue still empty.
C21_EmptyQueueGivesSilence ==
    /\ [][(DrainEnds /\ buffer = <<>>) => (pcm_queue = <<>> /\ UNCHANGED <<buffer, pcm_queue>>)]_vars
    /\ [][(FillStep /\ buffer = <<>>)
          => (/\ output'.len = output.len
              /\ Len(output'.samples) = output.len
              /\ \A i \in 1 .. output.len : output'.samples[i] = 0
              /\ buffer' = <<>>
              /\ UNCHANGED <<pc, result, pcm_queue>>)]_vars

\* a callback asked for three samples before any packet came has written three zeros
C21_Witness ==
    /\ cb = "idle"
    /\ output = Output(3, <<0, 0, 0>>)
    /\ packets = 0
    /\ pcm_queue = <<>>
    /\ buffer = <<>>

\* the places of `frames` that hold a frame other than a ping or a pong, and the first
Others(frames) == {i \in 1 .. Len(frames) : frames[i].kind \notin {"ping", "pong"}}
FirstOther(frames) == CHOOSE i \in Others(frames) : \A j \in Others(frames) : i <= j

\* C22: a call of receive that meets a close frame returns ConnectionError, one that
\* meets a frame of unexpected kind returns ProtocolError, and a call returns None
\* exactly when the transport ended and the call met nothing but pings and pongs.
C22_CloseAndRawFrameAreErrors ==
    [][Protocol_receive =>
          /\ (Others(inbox) # {} /\ inbox[FirstOther(inbox)].kind = "close")
             => (result'.status = "Err" /\ result'.err = "ConnectionError")
          /\ (Others(inbox) # {} /\ inbox[FirstOther(inbox)].kind = "frame")
             => (result'.status = "Err" /\ result'.err = "ProtocolError")
          /\ (pc' = "protocol" /\ result'.status = "Ok" /\ result'.val = None)
             <=> (Others(inbox) = {} /\ ws = "down")]_vars

\* a call looked past a ping, met a close frame and returned ConnectionError
C22_Witness ==
    /\ pc = "protocol"
    /\ result = Err("receive", "ConnectionError", "")
    /\ turns = 2
    /\ ws = "down"
    /\ inbox = <<>>

\* C23: a call of receive returns the outcome of the first frame that is neither a ping
\* nor a pong, however many pings and pongs are before it, and leaves the frames after
\* that one in the connection, in order; with only pings and pongs before the end of
\* input it returns None; it never returns for a ping or a pong.
C23_PingPongAreSkipped ==
    [][Protocol_receive =>
          IF Others(inbox) = {}
          THEN /\ result' = Ok("receive", None)
               /\ inbox' = <<>>
               /\ turns' = Len(inbox) + 1
          ELSE /\ inbox' = SubSeq(inbox, FirstOther(inbox) + 1, Len(inbox))
               /\ turns' = FirstOther(inbox)
               /\ IF receive_frame(inbox[FirstOther(inbox)]).ret = "Panic"
                  THEN pc' = "panicked"
                  ELSE result' = receive_result(receive_frame(inbox[FirstOther(inbox)]))
               /\ result'.status = "Err" => result'.err # ""]_vars

\* the third turn of a call returned the event that followed two pings or pongs
C23_Witness ==
    /\ pc = "protocol"
    /\ turns = 3
    /\ result = Ok("receive", Some(decode_text(ChannelStatus.json)))
    /\ inbox = <<>>
    /\ ws = "open"

\* this step is a turn of the loop in which receive_message meets a transport error
MeetsTransportError ==
    /\ pc = "loop"
    /\ inbox # <<>>
    /\ inbox' = Tail(inbox)
    /\ Head(inbox).kind = "error"

\* C24: when receive fails with a transport error during run_message_loop, the loop ends
\* and run_message_loop returns that failure to its caller as an error.
C24_TransportErrorIsReturned ==
    [][MeetsTransportError
       => (/\ pc' = "ready"
           /\ result'.op = "run_message_loop"
           /\ result'.status = "Err"
           /\ result'.err = "WebSocketError")]_vars

\* the first frame of the connection that is neither a ping nor a pong is a binary frame
\* of at least the nine bytes of the header / of fewer bytes
MeetsBinary == Others(inbox) # {} /\ inbox[FirstOther(inbox)].kind = "binary"
MeetsAudio == MeetsBinary /\ Len(inbox[FirstOther(inbox)].data) >= 9
MeetsShortBinary == MeetsBinary /\ Len(inbox[FirstOther(inbox)].data) < 9

\* C25: for a binary frame of L >= 9 bytes receive returns an AudioData event whose
\* stream id is bytes 1-4 and whose packet id is bytes 5-8 of the frame (counted from
\* 0), most significant byte first, and whose payload is the L - 9 bytes that follow,
\* unchanged and in order.
C25_BinaryFrameIsAudioData ==
    [][(Protocol_receive /\ MeetsAudio) =>
          LET d == inbox[FirstOther(inbox)].data IN
          /\ pc' = "protocol"
          /\ result'.status = "Ok"
          /\ result'.val # None
          /\ LET m == unwrap(result'.val) IN
              /\ m.family = "Event"
              /\ m.variant = "on_stream_data"
              /\ hi16(m.event.stream_id) = d[2] * 256 + d[3]
              /\ lo16(m.event.stream_id) = d[4] * 256 + d[5]
              /\ hi16(m.event.packet_id) = d[6] * 256 + d[7]
              /\ lo16(m.event.packet_id) = d[8] * 256 + d[9]
              /\ Len(m.event.data) = Len(d) - 9
              /\ \A i \in 1 .. (Len(d) - 9) : m.event.data[i] = d[i + 9]]_vars

\* receive returned the event of the frame FF FE FD FC / 80 00 00 01 / C8 that came
\* after a ping
C25_Witness ==
    /\ pc = "protocol"
    /\ turns = 2
    /\ result.status = "Ok"
    /\ result.val # None
    /\ unwrap(result.val).event.stream_id = -66052
    /\ unwrap(result.val).event.packet_id = (-I32Max)
    /\ unwrap(result.val).event.data = <<200>>

\* C26: a binary frame of fewer than nine bytes is reported by receive as an error
\* value, and the task that called receive goes on.
C26_ShortBinaryIsError ==
    [][(Protocol_receive /\ MeetsShortBinary)
       => (pc' = "protocol" /\ result'.status = "Err")]_vars

\* the members of a JSON text named `name`
Members(json, name) == {i \in DOMAIN json : json[i].name = name}

\* C27: the text of every request written carries the request's kind as the string
\* value of one member named `command` and its sequence number in one member named
\* `seq`, and has no member whose value is null.
C27_TaggedAndNoNulls ==
    \A i \in DOMAIN sent :
        /\ Cardinality(Members(sent[i].json, "command")) = 1
        /\ \A k \in Members(sent[i].json, "command") :
               /\ sent[i].json[k].value.type = "string"
               /\ sent[i].json[k].value.string \in
                      {"logon", "send_text_message", "start_stream", "stop_stream"}
        /\ Cardinality(Members(sent[i].json, "seq")) = 1
        /\ \A k \in DOMAIN sent[i].json : sent[i].json[k].value.type # "null"

\* C28: to_bytes yields the four bytes of the header (the sample rate as 16 bits, least
\* significant byte first, then frames per packet, then frame duration); from_bytes on
\* the bytes that to_bytes returned for a header gives that header back; from_bytes
\* fails on every buffer whose length is not 4; and 80 3E 01 3C decodes to (16000, 1, 60).
C28_CodecHeaderRoundTrips ==
    /\ [][CodecHeader_to_bytes
          => (/\ result'.status = "Ok"
              /\ Len(result'.val) = 4
              /\ result'.val[1] + 256 * result'.val[2] = input.header.sample_rate_hz
              /\ result'.val[1] < 256
              /\ result'.val[3] = input.header.frames_per_packet
              /\ result'.val[4] = input.header.frame_size_ms)]_vars
    /\ [][(result.op = "to_bytes" /\ CodecHeader_from_bytes(result.val))
          => result' = Ok("from_bytes", input.header)]_vars
    /\ [][(input.type = "bytes" /\ CodecHeader_from_bytes(input.bytes))
          => (/\ result'.status = "Ok" <=> Len(input.bytes) = 4
              /\ input.bytes = <<128, 62, 1, 60>> =>
                     result' = Ok("from_bytes", [sample_rate_hz |-> 16000,
                                                 frames_per_packet |-> 1,
                                                 frame_size_ms |-> 60]))]_vars

\* the header (256, 1, 255) came back from the bytes that to_bytes gave for it
C28_Witness ==
    /\ pc = "codec"
    /\ input = Input("header", CodecHeader(256, 1, 255), <<>>)
    /\ result = Ok("from_bytes", CodecHeader(256, 1, 255))

\* C29: new fails with ConfigError, before a connection is attempted, for exactly the
\* bundles that are not acceptable: an acceptable bundle passes validate, and every
\* other one is refused with ConfigError while the connection is still not made.
C29_ValidateAcceptsExactly ==
    [][LET NonEmpty(o) == is_some(o) /\ unwrap(o) # ""
           Acceptable(cfg) ==
               /\ cfg.channel # ""
               /\ NonEmpty(cfg.auth_token)
               /\ \/ NonEmpty(cfg.username) /\ NonEmpty(cfg.password)
                  \/ cfg.username = None /\ cfg.password = None
       IN  \A cfg \in Configs :
              new(cfg) =>
                 IF Acceptable(cfg)
                 THEN ~(result'.status = "Err" /\ result'.err = "ConfigError")
                 ELSE /\ result'.status = "Err"
                      /\ result'.err = "ConfigError"
                      /\ pc' = "failed"
                      /\ ws' = "none"
                      /\ sent' = <<>>]_vars

\* C30: a send_audio_packet(id, data) that succeeds was made on a started stream and
\* writes one frame after those written before: a binary frame whose bytes are those of
\* data and no more, with no type byte, stream id or packet id before them; it takes
\* no sequence number.
C30_AudioPacketIsPayloadOnly ==
    [][\A id \in StreamIds, data \in AudioPayloads :
          (send_audio_packet(id, data) /\ result'.status = "Ok")
          => (/\ contains_key(active_streams, id)
              /\ Len(sent') = Len(sent) + 1
              /\ SubSeq(sent', 1, Len(sent)) = sent
              /\ sent'[Len(sent')].kind = "binary"
              /\ Len(sent'[Len(sent')].data) = Len(data)
              /\ sent'[Len(sent')].data = data
              /\ UNCHANGED <<sequence, active_streams>>)]_vars

\* two packets were sent on the started stream 2, each as its own frame
C30_Witness ==
    /\ pc = "ready"
    /\ result = Ok("send_audio_packet", 0)
    /\ Len(sent) = 4
    /\ sent[2] = start_stream(2)
    /\ sent[3].kind = "binary"
    /\ sent[3].data = <<1, 200>>
    /\ sent[4].kind = "binary"
    /\ sent[4].data = <<0>>
    /\ contains_key(active_streams, 2)

\* C31: every stream identifier that a successful start_audio_stream returns is
\* greater than 0.
C31_StreamIdIsPositive ==
    [][LET greater_than_0(id) == id # 0    \* of a u32 held as its bit pattern
       IN  (start_audio_stream /\ result'.status = "Ok") => greater_than_0(result'.val)]_vars

\* C32: a request of any of the four variants, built with the value that next_seq just
\* returned, reports that value from its seq accessor, and the text that send writes
\* for it carries that value, the request being left as it was.
C32_SeqIsReadBackAndSent ==
    /\ [][Message_seq_call => result'.val = Some(seq)]_vars
    /\ [][Request_send
          => (/\ Len(sent') = Len(sent) + 1
              /\ \A k \in Members(sent'[Len(sent')].json, "seq") :
                     sent'[Len(sent')].json[k].value = JsonNumber(seq)
              /\ Members(sent'[Len(sent')].json, "seq") # {}
              /\ Message_seq(input'.message) = Some(seq))]_vars

\* a StopStream built at the end of the 32 bits was read back and sent
C32_Witness ==
    /\ result.op = "send"
    /\ input.type = "request"
    /\ input.message.variant = "StopStream"
    /\ seq = U32Max
    /\ sequence = 0
    /\ sent # <<>>

\* C33: no inbound event is lost: a frame is read off the connection once, so an
\* AudioStart with a usable codec header has its entry in the inbound map as soon as
\* it was read, whether the message loop read it or start_audio_stream did while it
\* waited for its Response.
C33_NoEventIsLost ==
    [][LET Read == inbox # <<>> /\ inbox' = Tail(inbox)
           Starts == {AudioStart(id, h) : id \in InboundIds, h \in {None, Some("gD4BPA==")}}
       IN  (Read /\ Head(inbox) \in Starts)
           => contains_key(active_inbound_streams', Head(inbox).json.event.stream_id)]_vars

RECURSIVE Samples(_)
Samples(queue) == IF queue = <<>> THEN <<>> ELSE Head(queue) \o Samples(Tail(queue))

\* C35: a playback callback moves the buffers of the queue to the accumulator in queue
\* order until the queue is empty, then writes the first min(N, accumulated) samples of
\* the accumulator followed by zeros; over the callbacks the samples written are those
\* of the accepted buffers in push order, each once: the samples still to be played
\* (accumulator, then queue) only grow at the end by a buffer pushed, and only shrink
\* at the front by what a callback writes.
C35_SamplesPlayedInOrderOnce ==
    [][LET ToPlay == buffer \o Samples(pcm_queue)
           ToPlayAfter == buffer' \o Samples(pcm_queue')
           n == IF Len(buffer) < output.len THEN Len(buffer) ELSE output.len
       IN  /\ (process_audio_output_recv /\ pcm_queue # <<>>)
                  => (/\ buffer' = buffer \o Head(pcm_queue)
                      /\ pcm_queue' = Tail(pcm_queue)
                      /\ cb' = "drain")
           /\ DrainEnds => pcm_queue = <<>>
           /\ FillStep
                  => (/\ output'.samples = SubSeq(buffer, 1, n) \o [i \in 1 .. output.len - n |-> 0]
                      /\ ToPlay = SubSeq(buffer, 1, n) \o ToPlayAfter
                      /\ pcm_queue' = pcm_queue)
           /\ DecodeStep
                  => \/ ToPlayAfter = ToPlay
                     \/ /\ pcm_queue' = Append(pcm_queue, unwrap(opus_decode(packet)))
                        /\ buffer' = buffer
           /\ (~FillStep /\ ~DecodeStep) => ToPlayAfter = ToPlay]_vars

\* a first callback wrote the sample of packet 1, and the next one those of packets 2 to 4
C35_Witness ==
    /\ cb = "idle"
    /\ output = Output(3, <<200, 300, 400>>)
    /\ buffer = <<500>>
    /\ pcm_queue = << <<600>> >>

\* C36: the decoder is held by one decode step at a time and only by a decode step; the
\* decode step releases it however it ends (the payload does not parse, the decoder
\* refuses it, or the samples are pushed); and the playback callback neither takes the
\* lock nor waits for it: its steps leave the lock alone and can be taken while a
\* decode step holds it.
C36_DecoderLockIsReleased ==
    /\ [](decoder = "held" <=> pc = "decode")
    /\ [][(pc = "loop" /\ pc' = "decode") => (decoder = "free" /\ decoder' = "held")]_vars
    /\ [][DecodeStep => (decoder' = "free" /\ pc' = "loop")]_vars
    /\ [][(process_audio_output_begin \/ process_audio_output_recv \/ process_audio_output_fill)
          => decoder' = decoder]_vars
    /\ [](decoder = "held" => CallbackCanStep)

\* the lock taken for packet 1 was released: packet 2, which the decoder will refuse,
\* is in the decode step, and a callback is draining the queue meanwhile
C36_Witness ==
    /\ pc = "decode"
    /\ decoder = "held"
    /\ packets = 2
    /\ packet = <<CorruptByte>>
    /\ cb = "drain"
    /\ pcm_queue = << <<100>> >>

\* C37: the accumulator of the playback callback never holds more samples than the
\* capacity it was created with, CPAL_VECTOR_QUEUE_CAPACITY = 8192.
C37_AccumulatorIsBounded == Len(buffer) <= CPAL_VECTOR_QUEUE_CAPACITY

\* C38: a text is decoded by trying the ErrorNotice fields first, then the Event's
\* discriminant, then Response: a text with the ErrorNotice shape decodes as an error
\* notice whatever else it holds, one with an Event shape and not the ErrorNotice shape
\* as an event, and only the others as a Response.
C38_ErrorNoticeThenEventThenResponse ==
    [][LET j == Head(inbox).json
           ErrorNoticeShape == j.command = "on_error" /\ j.error # None
           EventShape == j.command \in EventCommands /\ j.rest
           ResponseShape == j.seq # None /\ j.success # None
           family == IF ErrorNoticeShape THEN "Error"
                     ELSE IF EventShape THEN "Event"
                     ELSE IF ResponseShape THEN "Response"
                     ELSE "none"
       IN  (inbox # <<>> /\ Head(inbox).kind = "text" /\ Protocol_receive)
           => IF family = "none"
              THEN result'.status = "Err"
              ELSE /\ result'.status = "Ok"
                   /\ result'.val # None
                   /\ unwrap(result'.val).family = family]_vars

\* C39: a text frame that has none of the known shapes makes receive return the format
\* error (JsonError) and no message; the message loop that read it hands nothing to
\* handle_message, and the session is left as it was.
C39_UnknownTextIsFormatError ==
    [][LET j == Head(inbox).json
           KnownShape == \/ j.seq # None /\ j.success # None
                         \/ j.command = "on_error" /\ j.error # None
                         \/ j.command \in EventCommands /\ j.rest
       IN  (inbox # <<>> /\ Head(inbox).kind = "text" /\ ~KnownShape /\ inbox' = Tail(inbox))
           => (/\ pc = "protocol" => (result' = Err("receive", "JsonError", "") /\ pc' = pc)
               /\ pc = "loop" => (pc' = "ready" /\ result' = Ok("run_message_loop", 0))
               /\ UNCHANGED session
               /\ UNCHANGED <<sequence, sent, decoder, packet, pcm_queue>>)]_vars

\* receive returned JsonError for the frame it read, and the session has no stream
C39_Witness ==
    /\ pc = "protocol"
    /\ result = Err("receive", "JsonError", "")
    /\ inbox = <<>>
    /\ ws = "open"
    /\ active_inbound_streams = EmptyMap
    /\ authenticated
====
